---- MODULE Spec2Model ----
(***************************************************************************)
(* A model of the wagent build/run pipeline:                               *)
(*   - the artifact verifier and the orchestration loop of the runtime     *)
(*     (the second script of src/compile.mjs, lines 104-523),              *)
(*   - the deterministic packager (src/package.mjs),                       *)
(*   - the dependency resolver (src/vendor.mjs).                           *)
(* Each component has its own specification (SpecRun, SpecPackage,         *)
(* SpecResolve); the variables of the other components stay at their       *)
(* initial values.                                                         *)
(***************************************************************************)
EXTENDS Integers, Sequences, FiniteSets, TLC

VARIABLES
    \* ---- files under dist/ (shared by the packager and the runtime)
    disk,             \* [codeArchive, codeManifest, depsArchive, depsManifest, codeTmp, depsTmp]
    \* ---- runtime (run script)
    pc,               \* position of main()
    exitCode,         \* -1 while running, else the process exit code
    log,              \* the structured records written so far (per-step chatter left out)
    unpacked,         \* dist/_artifacts: [done, code, deps]
    agentRegistry,    \* the module-wide registry: [loaded, agents, rootAgent]
    chain,            \* the behaviour of the packaged agents (environment)
    nextTask,         \* [present, agentName, inputData]
    finalResult,      \* 0 is null
    stepCount,
    progressHistory,  \* sequence of [step, agent, progress]
    stagnantSteps,
    traceId,          \* the identifier written to the current input tape
    issued,           \* number of identifiers generated so far (uniqueness of randomUUID)
    inTape,           \* /tapes/in.json  : [present, trace_id, payload]
    outTape,          \* /tapes/out.json : [present, trace_id, status, result, action]
    threw,            \* the agent invocation in flight raised an exception
    invocations,      \* number of agentInstance.run calls made
    wheelNames,       \* the package archives staged in /tmp/wheels, sorted
    installIdx,       \* position of the install pass in progress in its list
    installs,         \* the installations made, in order: sequence of [wheel, pass]
    failedInstalls,   \* the package archives whose installation raised
    \* ---- packager
    ppc,              \* position of packageArtifacts()
    pExit,            \* -1 while running, else the exit code
    codeStage,        \* dist/_code_stage : set of files [path, data, mtime]
    depsStage,        \* dist/_deps_stage
    clock,            \* the wall clock that stamps copied files
    pHash,            \* the locals codeHash and depsHash
    builds,           \* completed packaging runs: inputs, archive bytes and hashes
    origin,           \* the packaging run that moved each archive to its final path
    \* ---- resolver
    rpc,
    packagesData,     \* catalog: name -> [present, depends]
    rootPkgs,         \* the requested list
    stack,
    resolved,         \* the Set, in insertion order
    closure,          \* the sorted result
    warned,           \* names reported by pkg.missing.in.lock
    \* ---- agent discovery and staging (compile script)
    dpc,              \* position of compile()
    dExit,            \* -1 while running, else the exit code
    dirents,          \* what readdir(".") returns: sequence of [name, isDirectory, hasMain]
    scanned,          \* number of entries the discovery loop has looked at
    agents,           \* the descriptors found so far: sequence of [name, sourceDir]
    appStage,         \* dist/app: set of [target, sourceDir], a copy of sourceDir in target
    registryFile,     \* dist/app/agent_registry.json: [written, agents, rootAgent]
    \* ---- vendoring (vendorDependencies)
    vpc,              \* position of vendorDependencies()
    vExit,            \* -1 while running, else the exit code
    agentDirs,        \* the agent directories still to be read: sequence of [name, requirements]
    dirCount,         \* how many agent directories the listing had
    discovered,       \* the Set of requirement strings
    requested,        \* Array.from(discovered).sort()
    fetchIdx,         \* position of the download loop in closure
    attempt,          \* the i of fetchToFile for the package being fetched, 0 outside
    attemptsMade,     \* package -> number of fetch(url) calls made for it
    vendorDir,        \* packages whose archive file is in ./vendor
    failedPkgs,       \* packages reported by download.fail
    skippedPkgs,      \* packages reported by pkg.skip
    vendorManifest    \* vendor/vendor-manifest.json

runVars == <<pc, exitCode, log, unpacked, agentRegistry, chain, nextTask, finalResult,
             stepCount, progressHistory, stagnantSteps, traceId, issued, inTape, outTape,
             threw, invocations, wheelNames, installIdx, installs, failedInstalls>>
installVars == <<wheelNames, installIdx, installs, failedInstalls>>
pkgVars == <<ppc, pExit, codeStage, depsStage, clock, pHash, builds, origin>>
resVars == <<rpc, packagesData, rootPkgs, stack, resolved, closure, warned>>
disVars == <<dpc, dExit, dirents, scanned, agents, appStage, registryFile>>
venVars == <<vpc, vExit, agentDirs, dirCount, discovered, requested, fetchIdx, attempt,
             attemptsMade, vendorDir, failedPkgs, skippedPkgs, vendorManifest>>
vars == <<disk, runVars, pkgVars, resVars, disVars, venVars>>

\* what the actions of one component leave alone
notRun == <<pkgVars, resVars, disVars, venVars>>
notPkg == <<runVars, resVars, disVars, venVars>>
notRes == <<runVars, pkgVars, disVars, venVars>>
notDis == <<disk, runVars, pkgVars, resVars, venVars>>
notVen == <<disk, runVars, pkgVars, disVars>>

(***************************************************************************)
(* Bounds of the model.                                                    *)
(***************************************************************************)
MaxPeriod == 6      \* the agents raise their progress signal every 1..MaxPeriod steps
MaxBuilds == 2      \* packaging runs made one after the other over the same dist/
MaxDeps == 2        \* length of a catalog entry's depends list
MaxRoots == 2       \* length of the requested list
MaxEntries == 3    \* entries of the workspace directory
MaxDirs == 2        \* entries of the workspace directory the vendoring pass lists
MaxLines == 1       \* lines of a requirements.txt

(***************************************************************************)
(* Program constants.                                                      *)
(***************************************************************************)
maxSteps == 20
maxStagnantSteps == 5

(***************************************************************************)
(* Files, archives and digests.                                            *)
(***************************************************************************)
\* A file of a staged tree: path and data are numbers; paths order as numbers.
File(p, d, t) == [path |-> p, data |-> d, mtime |-> t]

RECURSIVE Insert(_, _)
Insert(x, s) ==
    IF s = <<>> THEN <<x>>
    ELSE IF x <= Head(s) THEN <<x>> \o s
    ELSE <<Head(s)>> \o Insert(x, Tail(s))

RECURSIVE SortAsc(_)
SortAsc(s) == IF s = <<>> THEN <<>> ELSE Insert(Head(s), SortAsc(Tail(s)))

\* every enumeration order of a finite set
RECURSIVE SetToSeqs(_)
SetToSeqs(S) ==
    IF S = {} THEN {<<>>}
    ELSE UNION {{<<x>> \o t : t \in SetToSeqs(S \ {x})} : x \in S}

Range(s) == {s[i] : i \in 1..Len(s)}

\* crypto.createHash("sha256").update(buf).digest("hex"): a collision-free digest
Sha256(bytes) == <<"sha256", bytes>>

Undefined == <<>>
EmptyString == <<"">>
Truthy(v) == v # Undefined /\ v # EmptyString

NoFile == [exists |-> FALSE, bytes |-> <<>>]
ArchiveFile(b) == [exists |-> TRUE, bytes |-> b]
NoManifest == [exists |-> FALSE, parses |-> FALSE, archive_sha256 |-> Undefined]
BadManifest == [exists |-> TRUE, parses |-> FALSE, archive_sha256 |-> Undefined]
Manifest(h) == [exists |-> TRUE, parses |-> TRUE, archive_sha256 |-> h]

(***************************************************************************)
(* Trees and archives.  tar.create({portable, noMtime, gzip}, rel) writes  *)
(* one entry per listed path, in the order given, with the path and the    *)
(* data and no modification time; tar.x restores the entries.              *)
(***************************************************************************)
\* variant: the entry header carries the file's modification time
TarEntryWithMtime(f) == <<f.path, f.data, f.mtime>>

TarEntry(f) == <<f.path, f.data>>

\* the tree's file at path p
FileAt(tree, p) == CHOOSE f \in tree : f.path = p

PathsOf(tree) == {f.path : f \in tree}

\* tar.create over the relative paths rel (a sequence), then gzip
TarCreate(tree, rel) == <<"gzip">> \o [i \in 1..Len(rel) |-> TarEntry(FileAt(tree, rel[i]))]

\* tar.t / tar.x: the entries of an archive's bytes
TarEntries(bytes) == IF bytes = <<>> THEN <<>> ELSE Tail(bytes)

\* variant: the listing is left in enumeration order
listFilesUnsorted(enum) == enum

\* listFilesRecursive: collect in enumeration order, then sort
listFilesRecursive(enum) == SortAsc(enum)

\* a packed tree (any enumeration gives the same listing once sorted)
Pack(tree) == TarCreate(tree, listFilesRecursive(CHOOSE e \in SetToSeqs(PathsOf(tree)) : TRUE))

\* well-known paths inside the artifacts (numbers, so that they sort)
Paths == [registry |-> 1, agentMain |-> 2, runtime |-> 3, micropip |-> 4, packaging |-> 5, numpy |-> 6]

GoodCode == {File(Paths.registry, 1, 0), File(Paths.agentMain, 1, 0), File(Paths.runtime, 1, 0)}
NoRuntimeCode == {File(Paths.registry, 1, 0), File(Paths.agentMain, 1, 0)}
\* GoodCode with one byte of the registry changed
CorruptCode == {File(Paths.registry, 2, 0), File(Paths.agentMain, 1, 0), File(Paths.runtime, 1, 0)}
GoodDeps == {File(Paths.micropip, 1, 0), File(Paths.packaging, 1, 0), File(Paths.numpy, 1, 0)}
\* a vendor directory without the bootstrap archives
NoBootstrapDeps == {File(Paths.numpy, 1, 0)}
CorruptDeps == {File(Paths.micropip, 1, 0), File(Paths.packaging, 1, 0), File(Paths.numpy, 2, 0)}

(***************************************************************************)
(* Artifact verifier: ensureFile, sha256, verifyArchive.                   *)
(* The result is the event the call ends with: "archive.verified" when it  *)
(* returns, else the failure that ends the process ("fatal" when           *)
(* JSON.parse throws and main().catch reports it).                         *)
(***************************************************************************)
\* variant: a manifest without the hash field is let through (hash-optional)
verifyArchiveHashOptional(archive, manifest) ==
    IF ~archive.exists THEN "file.missing"
    ELSE IF ~manifest.exists THEN "file.missing"
    ELSE IF ~manifest.parses THEN "fatal"
    ELSE LET have == Sha256(archive.bytes)
             want == manifest.archive_sha256
         IN  IF Truthy(want) /\ want # have THEN "archive.hash.mismatch"
             ELSE "archive.verified"

verifyArchive(archive, manifest) ==
    IF ~archive.exists THEN "file.missing"
    ELSE IF ~manifest.exists THEN "file.missing"
    ELSE IF ~manifest.parses THEN "fatal"
    ELSE LET have == Sha256(archive.bytes)
             want == manifest.archive_sha256
         IN  IF ~Truthy(want) THEN "manifest.key.missing"
             ELSE IF want # have THEN "archive.hash.mismatch"
             ELSE "archive.verified"

(***************************************************************************)
(* Structured log and process exit.                                        *)
(***************************************************************************)
LogRec(event, level, hasHistory, history, result) ==
    [event |-> event, level |-> level, hasHistory |-> hasHistory,
     history |-> history, result |-> result]

Info(event) == LogRec(event, "info", FALSE, <<>>, 0)

\* variant: the failure is logged and main() goes round its loop again
failContinuing(event, hasHistory, history) ==
    /\ log' = Append(log, LogRec(event, "error", hasHistory, history, 0))
    /\ exitCode' = exitCode
    /\ pc' = "loop"

\* fail(event, data): log at level error, then process.exit(1)
fail(event, hasHistory, history) ==
    /\ log' = Append(log, LogRec(event, "error", hasHistory, history, 0))
    /\ exitCode' = 1
    /\ pc' = "exited"

Events == {log[i].event : i \in 1..Len(log)}

(***************************************************************************)
(* The packaged agents (environment).  The engine cannot see inside them;  *)
(* a chain is the rule its agents follow for the progress signal they put  *)
(* into the next payload: the signal rises by one every `period` steps     *)
(* (offset by `phase`), otherwise it stays (fall = 0) or drops by one      *)
(* (fall = 1), and it is carried in `field`.  At every step the agent may  *)
(* also complete, answer badly, echo a wrong trace, raise, or write        *)
(* nothing.                                                                *)
(***************************************************************************)
\* where the payloads carry the signal: in one of the two fields; in both (number is
\* then 10 ahead); or in number, next to a processed_result that is the boolean true
ProgressFields == {"processed_result", "number", "both", "flag"}

Chains ==
    {[period |-> m, phase |-> r, fall |-> f, field |-> fld] :
        m \in 1..MaxPeriod, r \in 0..(MaxPeriod - 1), f \in {0, 1},
        fld \in ProgressFields}

NoChain == [period |-> 1, phase |-> 0, fall |-> 0, field |-> "none"]

\* the signal never rises within a run: it stays at 1, or drops at every step
FlatChains ==
    {[period |-> maxSteps + 1, phase |-> 0, fall |-> f, field |-> fld] :
        f \in {0, 1}, fld \in {"processed_result", "number"}}

ChainChoices == {c \in Chains : c.phase < c.period} \cup FlatChains \cup {NoChain}

Rises(c, n) == Cardinality({i \in 1..n : (i + c.phase) % c.period = 0})

Signal(c, n) == 1 + Rises(c, n) - c.fall * (n - Rises(c, n))

\* an optional JSON value: <<>> is undefined, <<v>> the number v
Num(v) == <<v>>

\* the JSON value true: not a number, truthy, and 1 wherever JavaScript compares it
\* with a number
JsTrue == <<1, "true">>

InputData(c, n) ==
    [processed_result |-> IF c.field \in {"processed_result", "both"} THEN Num(Signal(c, n))
                          ELSE IF c.field = "flag" THEN JsTrue
                          ELSE Undefined,
     number |-> IF c.field \in {"number", "flag"} THEN Num(Signal(c, n))
                ELSE IF c.field = "both" THEN Num(Signal(c, n) + 10)
                ELSE Undefined]

NoInput == [processed_result |-> Undefined, number |-> Undefined]

\* action: {type, payload: {agent_name, input_data}}; hasPayload and hasInput say
\* whether action.payload and payload.input_data are there, and an agent_name that is
\* not there reads as undefined
NoAction ==
    [type |-> "none", hasPayload |-> FALSE, hasInput |-> FALSE, agent_name |-> "undefined",
     input_data |-> NoInput]

RunAgent(target, data) ==
    [type |-> "run_agent", hasPayload |-> TRUE, hasInput |-> TRUE, agent_name |-> target,
     input_data |-> data]

\* run_agent directives that lack the payload, the agent_name, the input_data
NoPayload == [NoAction EXCEPT !.type = "run_agent"]

NoAgentName(data) == [RunAgent("undefined", data) EXCEPT !.agent_name = "undefined"]

NoInputData(target) == [RunAgent(target, NoInput) EXCEPT !.hasInput = FALSE]

NoTape == [present |-> FALSE, trace_id |-> 0, status |-> "none", result |-> 0, action |-> NoAction]

Tape(t, status, result, action) ==
    [present |-> TRUE, trace_id |-> t, status |-> status, result |-> result, action |-> action]

OtherAgent(a) == IF a = "agent" THEN "multiplier" ELSE "agent"

\* what the agent invoked at step n with trace t may leave on the output tape
AgentOutputs(c, n, a, t) ==
    LET go(target) == RunAgent(target, InputData(c, n))
    IN  { Tape(t, "pending", 0, go(OtherAgent(a))),
          Tape(t, "pending", 0, go("ghost")),
          Tape(t, "complete", 100 + n, NoAction),
          Tape(t, "pending", 0, NoAction),
          Tape(t, "pending", 0, NoPayload),
          Tape(t, "pending", 0, NoAgentName(InputData(c, n))),
          Tape(t, "pending", 0, NoInputData(OtherAgent(a))),
          Tape(t, "error", 0, go(OtherAgent(a))),
          Tape(0, "pending", 0, go(OtherAgent(a))),
          Tape(0, "complete", 100 + n, NoAction) }

(***************************************************************************)
(* Runtime: main() of the run script.                                      *)
(***************************************************************************)
NoTask == [present |-> FALSE, agentName |-> "none", inputData |-> NoInput]
Task(a, d) == [present |-> TRUE, agentName |-> a, inputData |-> d]

NoRegistry == [loaded |-> FALSE, agents |-> {}, rootAgent |-> "none"]

\* the registry written by the compile stage for the two packaged agents
StagedRegistry == [loaded |-> TRUE, agents |-> {"agent", "multiplier"}, rootAgent |-> "agent"]

NotUnpacked == [done |-> FALSE, code |-> {}, deps |-> {}]

\* const currentProgress = p.input_data.processed_result || p.input_data.number || 0
JsTruthyNum(x) == x # Undefined /\ x[1] # 0

currentProgress(d) ==
    IF JsTruthyNum(d.processed_result) THEN d.processed_result[1]
    ELSE IF JsTruthyNum(d.number) THEN d.number[1]
    ELSE 0

\* variant: only a drop counts as stagnation
StagnantStrict(cur, last) == cur < last

\* if (currentProgress <= lastProgress) stagnantSteps++
Stagnant(cur, last) == cur <= last

\* variant: the loop runs for as long as there is a next task
LoopGuardUncounted(task, count) == task.present

\* variant: one step too many
LoopGuardInclusive(task, count) == task.present /\ count <= maxSteps

\* while (nextTask && stepCount < maxSteps)
LoopGuard(task, count) == task.present /\ count < maxSteps

\* variant: the loop goes on to its next iteration without waiting for the step
AtLoopHeadEarly == pc \in {"loop", "returned"}

\* const res = await executeAgentTask(...): the guard is evaluated again only when the
\* body of the previous iteration is over
AtLoopHead == pc = "loop"

\* variant: the name is not looked up
RegisteredAny(registry, name) == TRUE

\* agentRegistry.agents.find(a => a.name === agentName)
Registered(registry, name) == name \in registry.agents

\* variant: every step is given the same identifier
randomUUIDRepeating(n) == 1

\* crypto.randomUUID(): an identifier that was not issued before (n were)
randomUUID(n) == n + 1

\* variant: the echo is not checked
TraceUnchecked(tape, id) == TRUE

\* resultData.trace_id !== traceId is the mismatch
TraceMatches(tape, id) == tape.trace_id = id

\* const p = res.action.payload; ... p.input_data.processed_result: reading through a
\* payload or an input_data that is not there throws a TypeError
ReadableDirective(action) == action.hasPayload /\ action.hasInput

\* variant: any pending response is taken as a directive
PendingAny(res) == res.status = "pending"

\* res.status === "pending" && res.action?.type === "run_agent"
PendingDirective(res) == res.status = "pending" /\ res.action.type = "run_agent"

RunInit ==
    /\ pc = "verify_code"
    /\ exitCode = -1
    /\ log = <<Info("begin")>>
    /\ unpacked = NotUnpacked
    /\ agentRegistry = NoRegistry
    /\ chain = NoChain
    /\ nextTask = NoTask
    /\ finalResult = 0
    /\ stepCount = 0
    /\ progressHistory = <<>>
    /\ stagnantSteps = 0
    /\ traceId = 0
    /\ issued = 0
    /\ inTape = [present |-> FALSE, trace_id |-> 0, payload |-> NoInput]
    /\ outTape = NoTape
    /\ threw = FALSE
    /\ invocations = 0
    /\ wheelNames = <<>>
    /\ installIdx = 0
    /\ installs = <<>>
    /\ failedInstalls = {}

\* the dist/ directory a run may find
RunDisks ==
    [codeArchive : {NoFile, ArchiveFile(Pack(GoodCode)), ArchiveFile(Pack(NoRuntimeCode)),
                    ArchiveFile(Pack(CorruptCode))},
     codeManifest : {NoManifest, BadManifest, Manifest(Undefined), Manifest(EmptyString),
                     Manifest(Sha256(Pack(GoodCode))), Manifest(Sha256(Pack(NoRuntimeCode)))},
     depsArchive : {NoFile, ArchiveFile(Pack(GoodDeps)), ArchiveFile(Pack(CorruptDeps)),
                    ArchiveFile(Pack(NoBootstrapDeps))},
     depsManifest : {NoManifest, BadManifest, Manifest(Undefined), Manifest(EmptyString),
                     Manifest(Sha256(Pack(GoodDeps))), Manifest(Sha256(Pack(NoBootstrapDeps)))},
     codeTmp : {NoFile}, depsTmp : {NoFile}]

\* variant: the dependency archive is not verified
VerifyCodeOnly ==
    /\ pc = "verify_code"
    /\ LET r == verifyArchive(disk.codeArchive, disk.codeManifest)
       IN  IF r = "archive.verified"
           THEN /\ log' = Append(log, Info("archive.verified"))
                /\ pc' = "unpack"
                /\ UNCHANGED exitCode
           ELSE fail(r, FALSE, <<>>)
    /\ UNCHANGED <<disk, unpacked, agentRegistry, chain, nextTask, finalResult, stepCount,
                   progressHistory, stagnantSteps, traceId, issued, inTape, outTape, threw,
                   invocations, installVars, notRun>>

\* 1) Verify artifacts: verifyArchive(CODE_ARCHIVE, CODE_MANIFEST)
VerifyCode ==
    /\ pc = "verify_code"
    /\ LET r == verifyArchive(disk.codeArchive, disk.codeManifest)
       IN  IF r = "archive.verified"
           THEN /\ log' = Append(log, Info("archive.verified"))
                /\ pc' = "verify_deps"
                /\ UNCHANGED exitCode
           ELSE fail(r, FALSE, <<>>)
    /\ UNCHANGED <<disk, unpacked, agentRegistry, chain, nextTask, finalResult, stepCount,
                   progressHistory, stagnantSteps, traceId, issued, inTape, outTape, threw,
                   invocations, installVars, notRun>>

\* verifyArchive(DEPS_ARCHIVE, DEPS_MANIFEST)
VerifyDeps ==
    /\ pc = "verify_deps"
    /\ LET r == verifyArchive(disk.depsArchive, disk.depsManifest)
       IN  IF r = "archive.verified"
           THEN /\ log' = Append(log, Info("archive.verified"))
                /\ pc' = "unpack"
                /\ UNCHANGED exitCode
           ELSE fail(r, FALSE, <<>>)
    /\ UNCHANGED <<disk, unpacked, agentRegistry, chain, nextTask, finalResult, stepCount,
                   progressHistory, stagnantSteps, traceId, issued, inTape, outTape, threw,
                   invocations, installVars, notRun>>

\* 2) Unpack artifacts: cleanUnpack(), unpack()
Unpack ==
    /\ pc = "unpack"
    /\ IF disk.codeArchive.exists /\ disk.depsArchive.exists
       THEN /\ unpacked' = [done |-> TRUE,
                            code |-> Range(TarEntries(disk.codeArchive.bytes)),
                            deps |-> Range(TarEntries(disk.depsArchive.bytes))]
            /\ log' = Append(log, Info("unpack.complete"))
            /\ pc' = "stage"
            /\ UNCHANGED exitCode
       ELSE /\ fail("fatal", FALSE, <<>>)
            /\ UNCHANGED unpacked
    /\ UNCHANGED <<disk, agentRegistry, chain, nextTask, finalResult, stepCount,
                   progressHistory, stagnantSteps, traceId, issued, inTape, outTape, threw,
                   invocations, installVars, notRun>>

HasPath(entries, p) == \E e \in entries : e[1] = p

\* the archives of the bootstrap packages: n.startsWith("micropip-"),
\* n.startsWith("packaging-")
MicropipWheels == {Paths.micropip}

PackagingWheels == {Paths.packaging}

\* wheelNames.filter(n => need.some(k => n.startsWith(`${k}-`)))
chosen(names) == SelectSeq(names, LAMBDA n : n \in MicropipWheels \/ n \in PackagingWheels)

\* variant: only the installer's own archive is left out of the general pass
restMicropipOnly(names) == SelectSeq(names, LAMBDA n : n \notin MicropipWheels)

\* wheelNames.filter(n => !n.startsWith("micropip-") && !n.startsWith("packaging-"))
rest(names) == SelectSeq(names, LAMBDA n : n \notin MicropipWheels /\ n \notin PackagingWheels)

\* stageWheelsToVFS: the archives under vendor/ of the unpacked deps tree, sorted
stageWheelsToVFS(deps) == SortAsc(CHOOSE q \in SetToSeqs({e[1] : e \in deps}) : TRUE)

Installed(pass) == {installs[i].wheel : i \in {j \in 1..Len(installs) : installs[j].pass = pass}}

stageFrame ==
    UNCHANGED <<disk, unpacked, finalResult, stepCount, progressHistory, stagnantSteps,
                traceId, issued, inTape, outTape, threw, invocations, notRun>>

\* 3)-7) boot the sandbox from the unpacked runtime, mirror the app, register the host
\* module, load the registry, stage the package archives
Stage ==
    /\ pc = "stage"
    /\ IF ~HasPath(unpacked.code, Paths.runtime)
       THEN /\ fail("runtime.missing", FALSE, <<>>)
            /\ UNCHANGED <<agentRegistry, wheelNames>>
       ELSE IF ~HasPath(unpacked.code, Paths.registry)
       THEN /\ log' = log \o <<Info("host.capabilities.injected"),
                                LogRec("agent.registry.load.fail", "error", FALSE, <<>>, 0)>>
            /\ exitCode' = 1
            /\ pc' = "exited"
            /\ UNCHANGED <<agentRegistry, wheelNames>>
       ELSE /\ agentRegistry' = StagedRegistry
            /\ wheelNames' = stageWheelsToVFS(unpacked.deps)
            /\ log' = log \o <<Info("host.capabilities.injected"),
                                Info("agent.registry.loaded"), Info("wheels.staged")>>
            /\ pc' = "bootstrap"
            /\ UNCHANGED exitCode
    /\ installIdx' = 0
    /\ UNCHANGED <<chain, nextTask, installs, failedInstalls>>
    /\ stageFrame

\* installBootstrap: one iteration of for (const w of chosen), the wheel is unpacked
\* into site-packages or fail("bootstrap.wheel.fail")
BootstrapWheel ==
    /\ pc = "bootstrap"
    /\ installIdx < Len(chosen(wheelNames))
    /\ LET w == chosen(wheelNames)[installIdx + 1]
       IN  \E unpackedOk \in BOOLEAN :
             IF unpackedOk
             THEN /\ installs' = Append(installs, [wheel |-> w, pass |-> "bootstrap"])
                  /\ installIdx' = installIdx + 1
                  /\ UNCHANGED <<pc, exitCode, log, failedInstalls>>
             ELSE /\ failedInstalls' = failedInstalls \cup {w}
                  /\ fail("bootstrap.wheel.fail", FALSE, <<>>)
                  /\ UNCHANGED <<installs, installIdx>>
    /\ UNCHANGED <<agentRegistry, chain, nextTask, wheelNames>>
    /\ stageFrame

\* installBootstrap after its loop: the warning and return when no bootstrap archive
\* was staged, else import micropip, packaging or fail("bootstrap.import.fail"); then
\* installMicropipIfMissing, which ends the run when micropip cannot be imported
\* (it can when it was just installed, or when the runtime ships it)
BootstrapDone ==
    /\ pc = "bootstrap"
    /\ installIdx = Len(chosen(wheelNames))
    /\ \E importable \in BOOLEAN :
          IF chosen(wheelNames) = <<>>
          THEN IF importable
               THEN /\ log' = Append(log, LogRec("bootstrap.warn", "warn", FALSE, <<>>, 0))
                    /\ pc' = "general"
                    /\ UNCHANGED exitCode
               ELSE fail("micropip.absent.postbootstrap", FALSE, <<>>)
          ELSE IF importable
               THEN /\ log' = Append(log, Info("bootstrap.ok"))
                    /\ pc' = "general"
                    /\ UNCHANGED exitCode
               ELSE fail("bootstrap.import.fail", FALSE, <<>>)
    /\ installIdx' = 0
    /\ UNCHANGED <<agentRegistry, chain, nextTask, wheelNames, installs, failedInstalls>>
    /\ stageFrame

\* variant: an archive that micropip cannot install is logged and passed over
GeneralWheelSkipping ==
    /\ pc = "general"
    /\ installIdx < Len(rest(wheelNames))
    /\ LET w == rest(wheelNames)[installIdx + 1]
       IN  \E installedOk \in BOOLEAN :
             IF installedOk
             THEN /\ installs' = Append(installs, [wheel |-> w, pass |-> "general"])
                  /\ UNCHANGED failedInstalls
             ELSE /\ failedInstalls' = failedInstalls \cup {w}
                  /\ UNCHANGED installs
    /\ installIdx' = installIdx + 1
    /\ UNCHANGED <<pc, exitCode, log, agentRegistry, chain, nextTask, wheelNames>>
    /\ stageFrame

\* installRemainingWithMicropip: one iteration of for (const wheel of rest),
\* micropip.install(wheel) or fail("micropip.install.fail")
GeneralWheel ==
    /\ pc = "general"
    /\ installIdx < Len(rest(wheelNames))
    /\ LET w == rest(wheelNames)[installIdx + 1]
       IN  \E installedOk \in BOOLEAN :
             IF installedOk
             THEN /\ installs' = Append(installs, [wheel |-> w, pass |-> "general"])
                  /\ installIdx' = installIdx + 1
                  /\ UNCHANGED <<pc, exitCode, log, failedInstalls>>
             ELSE /\ failedInstalls' = failedInstalls \cup {w}
                  /\ fail("micropip.install.fail", FALSE, <<>>)
                  /\ UNCHANGED <<installs, installIdx>>
    /\ UNCHANGED <<agentRegistry, chain, nextTask, wheelNames>>
    /\ stageFrame

\* variant: main() does not wait for the general pass
GeneralDoneEarly == TRUE

\* await installRemainingWithMicropip(pyodide, wheelNames) has returned
GeneralDone == installIdx = Len(rest(wheelNames))

\* 8) boot audits (or fail("audit.python.fail")); 9) the loop is seeded with the root
\* agent
StartWorkflow ==
    /\ pc = "general"
    /\ GeneralDone
    /\ \E audited \in BOOLEAN, c \in ChainChoices :
          IF ~audited
          THEN /\ fail("audit.python.fail", FALSE, <<>>)
               /\ UNCHANGED <<chain, nextTask>>
          ELSE /\ chain' = c
               /\ nextTask' = Task(agentRegistry.rootAgent, NoInput)
               /\ log' = Append(log, Info("workflow.start"))
               /\ pc' = "loop"
               /\ UNCHANGED exitCode
    /\ UNCHANGED <<agentRegistry, installVars>>
    /\ stageFrame

\* while (nextTask && stepCount < maxSteps) { stepCount++; executeAgentTask up to
\* agentInstance.run(...) } and, once the loop is left, the step-limit check and "end"
LoopHead ==
    /\ AtLoopHead
    /\ IF LoopGuard(nextTask, stepCount)
       THEN /\ stepCount' = stepCount + 1
            /\ IF ~Registered(agentRegistry, nextTask.agentName)
               THEN /\ fail("agent.not.found", FALSE, <<>>)
                    /\ UNCHANGED <<traceId, issued, inTape, invocations>>
               ELSE \E imported \in BOOLEAN :
                    IF ~imported
                    THEN /\ fail("agent.exec.fail", FALSE, <<>>)
                         /\ UNCHANGED <<traceId, issued, inTape, invocations>>
                    ELSE /\ traceId' = randomUUID(issued)
                         /\ issued' = issued + 1
                         /\ inTape' = [present |-> TRUE, trace_id |-> randomUUID(issued),
                                       payload |-> nextTask.inputData]
                         /\ invocations' = invocations + 1
                         /\ pc' = "agent"
                         /\ UNCHANGED <<log, exitCode>>
       ELSE /\ IF stepCount >= maxSteps
               THEN fail("workflow.max.steps", TRUE, progressHistory)
               ELSE /\ log' = Append(log, LogRec("end", "info", FALSE, <<>>, finalResult))
                    /\ exitCode' = 0
                    /\ pc' = "exited"
            /\ UNCHANGED <<stepCount, traceId, issued, inTape, invocations>>
    /\ UNCHANGED <<disk, unpacked, agentRegistry, chain, nextTask, finalResult,
                   progressHistory, stagnantSteps, outTape, threw, installVars, notRun>>

\* agentInstance.run(inputTapePath, outputTapePath): the sandboxed agent
AgentRun ==
    /\ pc = "agent"
    /\ \/ /\ threw' = TRUE
          /\ UNCHANGED outTape
       \/ /\ threw' = FALSE
          /\ UNCHANGED outTape
       \/ /\ threw' = FALSE
          /\ \E r \in AgentOutputs(chain, stepCount, nextTask.agentName, inTape.trace_id) :
                outTape' = r
    /\ pc' = "returned"
    /\ UNCHANGED <<disk, exitCode, log, unpacked, agentRegistry, chain, nextTask, finalResult,
                   stepCount, progressHistory, stagnantSteps, traceId, issued, inTape,
                   invocations, installVars, notRun>>

\* variant: the first record counts as a step without progress
NextStagnantFromFirst(h, count) ==
    IF Len(h) >= 2
    THEN IF Stagnant(h[Len(h)].progress, h[Len(h) - 1].progress) THEN count + 1 ELSE 0
    ELSE count + 1

\* variant: progress does not restart the count
NextStagnantNoReset(h, count) ==
    IF Len(h) >= 2
    THEN IF Stagnant(h[Len(h)].progress, h[Len(h) - 1].progress) THEN count + 1 ELSE count
    ELSE count

\* the stagnation counter after a pending step whose history is h (newest last)
NextStagnant(h, count) ==
    IF Len(h) >= 2
    THEN IF Stagnant(h[Len(h)].progress, h[Len(h) - 1].progress) THEN count + 1 ELSE 0
    ELSE count

\* the rest of executeAgentTask (read the output tape, check the trace) and the
\* loop body's interpretation of the response; an exception thrown in the loop body
\* is caught by main().catch(err => fail("fatal", ...))
StepEnd ==
    /\ pc = "returned"
    /\ IF threw \/ ~outTape.present
       THEN /\ fail("agent.exec.fail", FALSE, <<>>)
            /\ UNCHANGED <<nextTask, finalResult, progressHistory, stagnantSteps>>
       ELSE IF ~TraceMatches(outTape, traceId)
       THEN /\ fail("trace.mismatch", FALSE, <<>>)
            /\ UNCHANGED <<nextTask, finalResult, progressHistory, stagnantSteps>>
       ELSE IF outTape.status = "complete"
       THEN /\ finalResult' = outTape.result
            /\ log' = Append(log, LogRec("workflow.complete", "info", TRUE,
                                         progressHistory, outTape.result))
            /\ nextTask' = NoTask
            /\ pc' = "loop"
            /\ UNCHANGED <<exitCode, progressHistory, stagnantSteps>>
       ELSE IF PendingDirective(outTape) /\ ~ReadableDirective(outTape.action)
       THEN /\ fail("fatal", FALSE, <<>>)
            /\ UNCHANGED <<nextTask, finalResult, progressHistory, stagnantSteps>>
       ELSE IF PendingDirective(outTape)
       THEN LET p == outTape.action
                h == Append(progressHistory,
                            [step |-> stepCount, agent |-> nextTask.agentName,
                             progress |-> currentProgress(p.input_data)])
                n == NextStagnant(h, stagnantSteps)
            IN  /\ progressHistory' = h
                /\ stagnantSteps' = n
                /\ IF n >= maxStagnantSteps
                   THEN /\ fail("workflow.stagnant", TRUE, h)
                        /\ UNCHANGED nextTask
                   ELSE /\ nextTask' = Task(p.agent_name, p.input_data)
                        /\ pc' = "loop"
                        /\ UNCHANGED <<log, exitCode>>
                /\ UNCHANGED finalResult
       ELSE /\ fail("agent.response.invalid", FALSE, <<>>)
            /\ UNCHANGED <<nextTask, finalResult, progressHistory, stagnantSteps>>
    /\ UNCHANGED <<disk, unpacked, agentRegistry, chain, stepCount, traceId, issued, inTape,
                   outTape, threw, invocations, installVars, notRun>>

RunNext ==
    \/ VerifyCode \/ VerifyDeps \/ Unpack \/ Stage \/ BootstrapWheel \/ BootstrapDone
    \/ GeneralWheel \/ StartWorkflow \/ LoopHead \/ AgentRun \/ StepEnd

\* the packager before its first run
PkgIdle ==
    /\ ppc = "idle"
    /\ pExit = -1
    /\ codeStage = {}
    /\ depsStage = {}
    /\ clock = 0
    /\ pHash = [code |-> Undefined, deps |-> Undefined]
    /\ builds = <<>>
    /\ origin = [code |-> 0, deps |-> 0]

\* the resolver when not exercised
ResIdle ==
    /\ rpc = "idle"
    /\ packagesData = <<>>
    /\ rootPkgs = <<>>
    /\ stack = <<>>
    /\ resolved = <<>>
    /\ closure = <<>>
    /\ warned = {}

\* agent discovery when not exercised
NoRegistryFile == [written |-> FALSE, agents |-> <<>>, rootAgent |-> <<>>]

DisIdle ==
    /\ dpc = "idle"
    /\ dExit = -1
    /\ dirents = <<>>
    /\ scanned = 0
    /\ agents = <<>>
    /\ appStage = {}
    /\ registryFile = NoRegistryFile

\* vendoring when not exercised
NoVendorManifest ==
    [written |-> FALSE, requested_packages |-> <<>>, resolved_packages |-> <<>>,
     files |-> <<>>]

VenIdle ==
    /\ vpc = "idle"
    /\ vExit = -1
    /\ agentDirs = <<>>
    /\ dirCount = 0
    /\ discovered = {}
    /\ requested = <<>>
    /\ fetchIdx = 0
    /\ attempt = 0
    /\ attemptsMade = <<>>
    /\ vendorDir = {}
    /\ failedPkgs = {}
    /\ skippedPkgs = {}
    /\ vendorManifest = NoVendorManifest

InitRun ==
    /\ disk \in RunDisks
    /\ RunInit
    /\ PkgIdle
    /\ ResIdle
    /\ DisIdle
    /\ VenIdle

SpecRun == InitRun /\ [][RunNext]_vars

\* another process rewrites an archive file under dist/ while the run is between its
\* first verification and its unpack step
Tamper ==
    /\ pc \in {"verify_deps", "unpack"}
    /\ \/ /\ disk.codeArchive # ArchiveFile(Pack(CorruptCode))
          /\ disk' = [disk EXCEPT !.codeArchive = ArchiveFile(Pack(CorruptCode))]
       \/ /\ disk.depsArchive # ArchiveFile(Pack(CorruptDeps))
          /\ disk' = [disk EXCEPT !.depsArchive = ArchiveFile(Pack(CorruptDeps))]
    /\ UNCHANGED <<runVars, notRun>>

\* the run script next to a process that writes to dist/
SpecRunShared == InitRun /\ [][RunNext \/ Tamper]_vars

\* main() is one sequential async function on a live event loop: whatever step is
\* enabled is eventually taken, the return of the agent invocation included
SpecRunFair == InitRun /\ [][RunNext]_vars /\ WF_vars(RunNext)

(***************************************************************************)
(* Properties of the runtime.                                              *)
(***************************************************************************)
LastEvent == log[Len(log)].event

Started == "workflow.start" \in Events

\* every step started so far invoked its agent and came back pending with a directive
AllPending == stepCount = invocations /\ invocations = Len(progressHistory)

StrictlyIncreasing(h) == \A i \in 2..Len(h) : h[i].progress > h[i - 1].progress

ConstantProgress(h) == \A i \in 2..Len(h) : h[i].progress = h[i - 1].progress

\* C1: a chain whose every step returns pending with a run_agent directive and
\* strictly increasing progress is invoked exactly maxSteps (20) times and the run
\* then ends with workflow.max.steps; no run ever makes a 21st invocation.
C1_StepLimit ==
    /\ invocations <= maxSteps
    /\ (pc = "exited" /\ Started /\ AllPending /\ StrictlyIncreasing(progressHistory))
          => (invocations = 20 /\ LastEvent = "workflow.max.steps" /\ exitCode = 1)

C1_Witness ==
    /\ pc = "exited" /\ Started /\ AllPending /\ StrictlyIncreasing(progressHistory)
    /\ invocations = 20 /\ LastEvent = "workflow.max.steps"

\* C2: a run in which some step 1..20 returns complete ends Complete and exits
\* successfully, never also reported as a step-limit abort; the step-limit abort
\* happens only when Complete was not reached.
C2_CompleteIsFinal ==
    /\ (pc = "exited" /\ "workflow.complete" \in Events)
          => (exitCode = 0 /\ LastEvent = "end" /\ log[Len(log)].result = finalResult)
    /\ "workflow.max.steps" \in Events => "workflow.complete" \notin Events

\* C3: a chain that always returns pending with the same progress value is ended by
\* workflow.stagnant after exactly maxStagnantSteps (5) non-increasing steps: not
\* after fewer, and nothing runs once 5 are reached.
C3_StagnationBound ==
    (Started /\ AllPending /\ ConstantProgress(progressHistory)) =>
        /\ stagnantSteps = (IF progressHistory = <<>> THEN 0 ELSE Len(progressHistory) - 1)
        /\ stagnantSteps < 5 => (pc = "loop" /\ "workflow.stagnant" \notin Events)
        /\ stagnantSteps >= 5 =>
              (stagnantSteps = 5 /\ pc = "exited" /\ exitCode = 1
               /\ LastEvent = "workflow.stagnant" /\ invocations = 6)

C3_Witness ==
    /\ Started /\ AllPending /\ ConstantProgress(progressHistory)
    /\ stagnantSteps = 5 /\ pc = "exited" /\ LastEvent = "workflow.stagnant"

\* the response on the output tape can be read, and its trace is / is not the one sent
Readable == pc = "returned" /\ ~threw /\ outTape.present
Mismatched == Readable /\ outTape.trace_id # inTape.trace_id
Echoed == Readable /\ outTape.trace_id = inTape.trace_id

\* C4: when the trace read from the output tape differs from the fresh one written to
\* the step's input tape, the run aborts with trace.mismatch in that same step, before
\* the status is interpreted and before a next task is built (so on step 1 when the
\* first echo is already wrong).
C4_TraceMismatchAborts ==
    [][Mismatched =>
          /\ pc' = "exited" /\ exitCode' = 1
          /\ log' = Append(log, LogRec("trace.mismatch", "error", FALSE, <<>>, 0))
          /\ UNCHANGED <<nextTask, finalResult, progressHistory, stagnantSteps, stepCount,
                         invocations>>]_vars

C4_Witness ==
    /\ pc = "exited" /\ LastEvent = "trace.mismatch" /\ stepCount = 1
    /\ outTape.present /\ outTape.trace_id # inTape.trace_id /\ outTape.status = "complete"

\* C5: a response with the right trace whose status is neither complete nor pending
\* with a run_agent directive ends the run with agent.response.invalid, a failure, and
\* no agent is invoked afterwards.
C5_InvalidResponseAborts ==
    [][/\ (Echoed /\ outTape.status # "complete"
              /\ ~(outTape.status = "pending" /\ outTape.action.type = "run_agent"))
          => /\ pc' = "exited" /\ exitCode' = 1
             /\ log' = Append(log, LogRec("agent.response.invalid", "error", FALSE, <<>>, 0))
             /\ UNCHANGED <<nextTask, progressHistory>>
       /\ "agent.response.invalid" \in Events => invocations' = invocations]_vars

C5_Witness ==
    /\ pc = "exited" /\ LastEvent = "agent.response.invalid" /\ exitCode = 1
    /\ outTape.status = "pending" /\ outTape.action.type = "none" /\ stepCount > 1

\* what the verifier must accept, stated on the files
Passes(archive, manifest) ==
    /\ archive.exists /\ manifest.exists /\ manifest.parses
    /\ manifest.archive_sha256 \notin {Undefined, EmptyString}
    /\ manifest.archive_sha256 = Sha256(archive.bytes)

\* C6: verification lets the run continue only if the archive exists, the manifest
\* exists, it carries a non-empty archive_sha256 and that equals the SHA-256 of the
\* archive's current bytes; in every other case the run ends with a failure.
C6_VerifyFailsClosed ==
    [][/\ pc = "verify_code" =>
             IF Passes(disk.codeArchive, disk.codeManifest)
             THEN pc' = "verify_deps" /\ exitCode' = -1
             ELSE pc' = "exited" /\ exitCode' = 1 /\ log'[Len(log')].level = "error"
       /\ pc = "verify_deps" =>
             IF Passes(disk.depsArchive, disk.depsManifest)
             THEN pc' = "unpack" /\ exitCode' = -1
             ELSE pc' = "exited" /\ exitCode' = 1 /\ log'[Len(log')].level = "error"]_vars

C6_Witness ==
    /\ disk.codeArchive = ArchiveFile(Pack(CorruptCode))
    /\ disk.codeManifest = Manifest(Sha256(Pack(GoodCode)))
    /\ pc = "exited" /\ exitCode = 1 /\ LastEvent = "archive.hash.mismatch"

VerifiedCount == Cardinality({i \in 1..Len(log) : log[i].event = "archive.verified"})

VerifyFailures == {"file.missing", "manifest.key.missing", "archive.hash.mismatch"}

\* C7: nothing is unpacked (and so nothing is booted, staged, installed or invoked)
\* unless both archives passed verification earlier in the run; after a failed
\* verification nothing is unpacked.
C7_VerifyBeforeUnpack ==
    /\ (unpacked.done \/ agentRegistry.loaded \/ Started \/ invocations > 0
           \/ pc \in {"stage", "loop", "agent", "returned"})
          => /\ VerifiedCount = 2
             /\ Passes(disk.codeArchive, disk.codeManifest)
             /\ Passes(disk.depsArchive, disk.depsManifest)
    /\ (Events \cap VerifyFailures # {}) =>
          (~unpacked.done /\ ~agentRegistry.loaded /\ invocations = 0)

C7_Witness == unpacked.done /\ VerifiedCount = 2 /\ invocations > 0

InstallFailures ==
    {"bootstrap.wheel.fail", "bootstrap.import.fail", "micropip.absent.postbootstrap",
     "micropip.install.fail"}

AllInstalled == {installs[i].wheel : i \in 1..Len(installs)}

\* C16: once the installation of a staged package archive has raised, in either pass,
\* the run has ended with exit code 1 on that failure and no agent was or will be
\* invoked; an agent is invoked only when every staged archive was installed.
C16_InstallFailureFatal ==
    /\ failedInstalls # {} =>
          /\ pc = "exited" /\ exitCode = 1 /\ invocations = 0
          /\ LastEvent \in {"bootstrap.wheel.fail", "micropip.install.fail"}
    /\ (Events \cap InstallFailures # {}) =>
          (pc = "exited" /\ exitCode = 1 /\ invocations = 0)
    /\ invocations > 0 => (failedInstalls = {} /\ Range(wheelNames) \subseteq AllInstalled)

\* the bootstrap pass went through, then an archive of the general pass failed
C16_Witness ==
    /\ failedInstalls = {Paths.numpy} /\ Installed("bootstrap") = {Paths.micropip, Paths.packaging}
    /\ LastEvent = "micropip.install.fail" /\ pc = "exited"

\* C17: installations happen in two ordered passes: every bootstrap installation
\* comes before every general one, the bootstrap pass installs the bootstrap archives
\* and the general pass the others, the general pass starts only when every staged
\* bootstrap archive is installed, no archive is installed twice, and when the
\* workflow starts every staged archive has been installed.
C17_TwoPasses ==
    /\ \A i, j \in 1..Len(installs) :
          /\ i < j => ~(installs[i].pass = "general" /\ installs[j].pass = "bootstrap")
          /\ i # j => installs[i].wheel # installs[j].wheel
    /\ \A i \in 1..Len(installs) :
          /\ installs[i].wheel \in Range(wheelNames)
          /\ installs[i].pass = "bootstrap" <=>
                installs[i].wheel \in {Paths.micropip, Paths.packaging}
    /\ (pc = "general" \/ Installed("general") # {}) =>
          Range(wheelNames) \cap {Paths.micropip, Paths.packaging} \subseteq Installed("bootstrap")
    /\ (pc \in {"loop", "agent", "returned"} \/ invocations > 0) =>
          Range(wheelNames) = AllInstalled

\* two bootstrap archives and one other were staged, and the workflow has started
C17_Witness ==
    /\ invocations > 0 /\ Len(wheelNames) = 3
    /\ Installed("bootstrap") = {Paths.micropip, Paths.packaging}
    /\ Installed("general") = {Paths.numpy}

AbortEvents ==
    {"trace.mismatch", "agent.response.invalid", "agent.exec.fail", "agent.not.found",
     "workflow.stagnant", "workflow.max.steps"}

\* C20: the record a run emits when it aborts (trace mismatch, invalid response, agent
\* execution failure, unknown agent, stagnation, step limit) carries the progress
\* history accumulated up to the abort.
C20_AbortCarriesHistory ==
    (pc = "exited" /\ LastEvent \in AbortEvents) =>
        (log[Len(log)].hasHistory /\ log[Len(log)].history = progressHistory)

\* the part of C20 that holds: the stagnation and step-limit records carry the history
HistoryOnNonConvergence ==
    (pc = "exited" /\ LastEvent \in {"workflow.stagnant", "workflow.max.steps"}) =>
        (log[Len(log)].hasHistory /\ log[Len(log)].history = progressHistory)

\* the run went: root agent pending with a directive to multiplier, multiplier complete
TwoStepScenario ==
    /\ pc = "exited" /\ stepCount = 2 /\ invocations = 2
    /\ "workflow.complete" \in Events
    /\ nextTask = NoTask

\* C21: the progress history holds one record per executed step, in step order: a run
\* that ends after n steps has n records, the i-th being that of step i; in the
\* two-step scenario the multiplier's result is returned after exactly 2 steps and
\* both steps are in the history.
C21_HistoryPerStep ==
    /\ (pc = "exited" /\ Started) =>
          /\ Len(progressHistory) = stepCount
          /\ \A i \in 1..Len(progressHistory) : progressHistory[i].step = i
    /\ TwoStepScenario =>
          /\ finalResult = 100 + 2 /\ exitCode = 0
          /\ Len(progressHistory) = 2

\* the part of C21 that holds: the history is in step order, it has the pending steps
\* only, and the two-step scenario returns the multiplier's result after 2 steps
HistoryOfPendingSteps ==
    /\ \A i \in 1..Len(progressHistory) :
          /\ progressHistory[i].step = i
          /\ progressHistory[i].step <= stepCount
    /\ "workflow.complete" \in Events => Len(progressHistory) = stepCount - 1
    /\ TwoStepScenario =>
          /\ finalResult = 100 + 2 /\ exitCode = 0
          /\ progressHistory = <<[step |-> 1, agent |-> "agent",
                                  progress |-> progressHistory[1].progress]>>

\* the run has reached Complete / an Aborted state
Completed == "workflow.complete" \in Events
Aborted == pc = "exited" /\ exitCode = 1

\* C22: Complete and Aborted are terminal: from then on no agent is invoked, nothing
\* is appended to the progress history, and the outcome does not change (a completed
\* run is not turned into a failure, an aborted run emits and changes nothing more).
C22_Terminal ==
    [][(Completed \/ Aborted) =>
          /\ invocations' = invocations
          /\ progressHistory' = progressHistory
          /\ Completed => (exitCode' \in {-1, 0} /\ log'[Len(log')].level # "error")
          /\ Aborted => UNCHANGED <<pc, exitCode, log>>]_vars

\* C23: every run eventually ends, Complete or with a failure, whatever the agents
\* answer, after at most maxSteps (20) agent invocations; the step counter counts the
\* executeAgentTask calls started (it is one ahead of the agents actually run only
\* when the last call ended before its agent ran) and never exceeds 20.
C23_Terminates ==
    /\ <>(pc = "exited" /\ (Completed \/ exitCode = 1))
    /\ [](/\ invocations <= maxSteps /\ stepCount <= maxSteps
          /\ invocations <= stepCount /\ stepCount <= invocations + 1
          /\ stepCount = invocations + 1 =>
                (pc = "exited" /\ LastEvent \in {"agent.not.found", "agent.exec.fail"}))

C23_Witness ==
    /\ pc = "exited" /\ invocations = maxSteps /\ stepCount = maxSteps
    /\ Len(progressHistory) = maxSteps

StepFailures == {"agent.exec.fail", "trace.mismatch", "agent.response.invalid"}

\* the invocation that has returned is about to be found failed
FailingStep ==
    /\ pc = "returned"
    /\ \/ threw \/ ~outTape.present
       \/ outTape.trace_id # traceId
       \/ (outTape.status # "complete" /\ ~PendingDirective(outTape))

\* C24: nothing is retried: an agent is invoked only as part of a new step (the step
\* counter and the invocation count go up by one together), a step whose invocation
\* raised, echoed a wrong trace or answered invalidly ends the run at once, and after
\* such a failure no agent is invoked and no step is started.
C24_NoRetry ==
    [][/\ invocations' # invocations =>
             (invocations' = invocations + 1 /\ stepCount' = stepCount + 1)
       /\ stepCount' # stepCount => stepCount' = stepCount + 1
       /\ FailingStep =>
             (pc' = "exited" /\ exitCode' = 1 /\ log'[Len(log')].event \in StepFailures)
       /\ Events \cap StepFailures # {} =>
             (invocations' = invocations /\ stepCount' = stepCount)]_vars

\* the agent of step 2 raised and the run ended there
C24_Witness ==
    /\ pc = "exited" /\ LastEvent = "agent.exec.fail" /\ threw
    /\ stepCount = 2 /\ invocations = 2 /\ exitCode = 1

\* C25: steps never overlap: an agent is in flight only between the writing of its
\* input tape and the reading of its output tape, and the input tape of the next step
\* is written only when no agent is in flight and the output tape of the previous step
\* has been read, carries the trace that was sent and was taken as a directive.
C25_NoOverlap ==
    [][inTape' # inTape =>
          /\ pc = "loop" /\ pc' = "agent"
          /\ inTape'.trace_id # inTape.trace_id
          /\ invocations' = invocations + 1
          /\ invocations > 0 =>
                /\ ~threw /\ outTape.present
                /\ outTape.trace_id = inTape.trace_id
                /\ PendingDirective(outTape)
                /\ inTape'.payload = outTape.action.input_data
                /\ Len(progressHistory) = invocations]_vars

\* the third step is in flight, the tape of the second one is still there
C25_Witness ==
    /\ pc = "agent" /\ stepCount = 3 /\ invocations = 3
    /\ inTape.trace_id = 3 /\ outTape.trace_id = 2

\* the number of records at the end of h that did not rise above their predecessor
RECURSIVE TrailingStagnant(_)
TrailingStagnant(h) ==
    IF Len(h) < 2 THEN 0
    ELSE IF h[Len(h)].progress <= h[Len(h) - 1].progress
    THEN 1 + TrailingStagnant(SubSeq(h, 1, Len(h) - 1))
    ELSE 0

\* C30: when a pending step adds a record that has a predecessor, the counter becomes
\* the previous counter plus one if the new progress is less than or equal to the
\* previous one and zero otherwise (it is left alone by a first record); so the
\* counter is the number of consecutive most recent records that did not rise, and the
\* run is ended by workflow.stagnant exactly when that number reaches 5.
C30_StagnationRule ==
    /\ [][progressHistory' # progressHistory =>
             LET n == Len(progressHistory')
             IN  /\ progressHistory' = Append(progressHistory, progressHistory'[n])
                 /\ stagnantSteps' =
                       IF n < 2 THEN stagnantSteps
                       ELSE IF progressHistory'[n].progress <= progressHistory'[n - 1].progress
                       THEN stagnantSteps + 1
                       ELSE 0
                 /\ (pc' = "exited" /\ log'[Len(log')].event = "workflow.stagnant")
                       <=> stagnantSteps' >= maxStagnantSteps]_vars
    /\ [](/\ stagnantSteps = TrailingStagnant(progressHistory)
          /\ stagnantSteps <= maxStagnantSteps
          /\ "workflow.stagnant" \in Events <=>
                TrailingStagnant(progressHistory) = maxStagnantSteps)

\* four steps without progress, one rise that restarted the count, then five more
C30_Witness ==
    /\ pc = "exited" /\ LastEvent = "workflow.stagnant" /\ Len(progressHistory) = 11
    /\ progressHistory[6].progress > progressHistory[5].progress
    /\ TrailingStagnant(SubSeq(progressHistory, 1, 5)) = 4

\* the response read at this step is pending with a run_agent action that lacks its
\* payload, its agent_name or its input_data
MalformedDirective ==
    /\ Echoed /\ outTape.status = "pending" /\ outTape.action.type = "run_agent"
    /\ \/ ~outTape.action.hasPayload \/ ~outTape.action.hasInput
       \/ outTape.action.agent_name = "undefined"

\* C31: a pending response becomes the next task only if its directive names a target
\* agent and carries an input payload: a run_agent action without payload, agent_name
\* or input_data is rejected with agent.response.invalid at the step that produced it;
\* no next task is built from it, nothing is recorded, no further step is counted.
C31_DirectiveValidated ==
    [][/\ MalformedDirective =>
             /\ pc' = "exited" /\ exitCode' = 1
             /\ log'[Len(log')].event = "agent.response.invalid"
             /\ UNCHANGED <<nextTask, progressHistory, stepCount, invocations>>
       /\ nextTask' # nextTask /\ nextTask'.present =>
             (nextTask'.agentName # "undefined" /\ (outTape.present => outTape.action.hasInput))
       /\ "agent.response.invalid" \in Events =>
             UNCHANGED <<stepCount, invocations>>]_vars

\* the part of C31 that holds: a directive without payload or input_data ends the run
\* at its step (as an uncaught exception, event fatal), and after a directive without
\* agent_name no agent is invoked (the next step ends with agent.not.found)
MalformedDirectiveEndsRun ==
    [][/\ (MalformedDirective /\ ~ReadableDirective(outTape.action)) =>
             /\ pc' = "exited" /\ exitCode' = 1 /\ log'[Len(log')].event = "fatal"
             /\ UNCHANGED <<nextTask, progressHistory, stepCount, invocations>>
       /\ (nextTask.present /\ nextTask.agentName = "undefined") =>
             /\ invocations' = invocations
             /\ pc = "loop" => (pc' = "exited" /\ exitCode' = 1
                                 /\ log'[Len(log')].event \in {"agent.not.found",
                                                                  "workflow.max.steps"})]_vars

\* C32: only agents whose names are in the loaded registry are invoked: a step whose
\* task names an agent that is not in the registry ends the run with agent.not.found,
\* before the module is imported, a trace is generated or the input tape is written.
C32_OnlyRegisteredAgents ==
    [][/\ invocations' # invocations =>
             (agentRegistry.loaded /\ nextTask.agentName \in agentRegistry.agents)
       /\ (pc = "loop" /\ nextTask.present /\ stepCount < maxSteps
              /\ nextTask.agentName \notin agentRegistry.agents) =>
             /\ pc' = "exited" /\ exitCode' = 1
             /\ log' = Append(log, LogRec("agent.not.found", "error", FALSE, <<>>, 0))
             /\ UNCHANGED <<inTape, outTape, traceId, issued, invocations, threw>>]_vars

\* the directive of step 1 named an agent the registry does not have
C32_Witness ==
    /\ pc = "exited" /\ LastEvent = "agent.not.found" /\ nextTask.agentName = "ghost"
    /\ stepCount = 2 /\ invocations = 1 /\ inTape.trace_id = 1

\* the position of the first record of an event in the log, 0 if there is none
FirstAt(event) ==
    IF event \in Events THEN CHOOSE i \in 1..Len(log) :
                                 /\ log[i].event = event
                                 /\ \A j \in 1..(i - 1) : log[j].event # event
    ELSE 0

\* C33: an agent is invoked only when staging is complete: the host capability module
\* was registered, the agent registry was loaded, and both install passes finished
\* without a failure (every staged archive installed by its pass, the installer
\* importable), all of it before the workflow started.
C33_StagedBeforeInvoke ==
    (invocations > 0 \/ pc \in {"agent", "returned"} \/ Started) =>
        /\ "host.capabilities.injected" \in Events
        /\ agentRegistry.loaded /\ "agent.registry.loaded" \in Events
        /\ FirstAt("host.capabilities.injected") < FirstAt("agent.registry.loaded")
        /\ FirstAt("agent.registry.loaded") < FirstAt("workflow.start")
        /\ Installed("bootstrap") = Range(chosen(wheelNames))
        /\ Installed("general") = Range(rest(wheelNames))
        /\ failedInstalls = {} /\ Events \cap InstallFailures = {}
        /\ {"bootstrap.ok", "bootstrap.warn"} \cap Events # {}
        /\ invocations > 0 => Started

\* no bootstrap archive was staged (the runtime ships the installer): numpy was
\* installed by the general pass and the first agent is in flight
C33_Witness ==
    /\ pc = "agent" /\ invocations = 1 /\ "bootstrap.warn" \in Events
    /\ wheelNames = <<Paths.numpy>> /\ Installed("general") = {Paths.numpy}

NonzeroNumber(x) == Len(x) = 1 /\ x[1] # 0

\* the progress value the rule of C34 gives for a payload
ProgressByRule(d) ==
    IF NonzeroNumber(d.processed_result) THEN d.processed_result[1]
    ELSE IF NonzeroNumber(d.number) THEN d.number[1]
    ELSE 0

\* C34: the progress recorded for a pending step is input_data.processed_result when
\* that is a nonzero number, otherwise input_data.number when that is a nonzero
\* number, otherwise 0; a chain whose payloads carry neither field is recorded with 0
\* at every step and counts as non-increasing from its second pending step on.
C34_ProgressValue ==
    [][progressHistory' # progressHistory =>
          LET n == Len(progressHistory')
              d == outTape.action.input_data
          IN  /\ progressHistory'[n].progress = ProgressByRule(d)
              /\ (chain.field = "none" /\ AllPending) =>
                    /\ progressHistory'[n].progress = 0
                    /\ stagnantSteps' = n - 1]_vars

\* the part of C34 that holds: the rule, for payloads whose two fields are numbers or
\* absent, and the chain without either field
ProgressValueOfNumbers ==
    [][progressHistory' # progressHistory =>
          LET n == Len(progressHistory')
              d == outTape.action.input_data
          IN  /\ (Len(d.processed_result) <= 1 /\ Len(d.number) <= 1) =>
                    progressHistory'[n].progress = ProgressByRule(d)
              /\ (chain.field = "none" /\ AllPending) =>
                    /\ progressHistory'[n].progress = 0
                    /\ stagnantSteps' = n - 1]_vars

\* C35: a stale output tape is never accepted: the tape left by an earlier step never
\* carries the identifier of the step in flight, so when the agent of a step returns
\* without raising and without writing the tape, what is read differs from the
\* identifier sent, and the run ends with trace.mismatch: the old response becomes
\* neither the result nor the next task and adds nothing to the history.
C35_StaleTapeRejected ==
    /\ [][(pc = "agent" /\ pc' = "returned" /\ ~threw' /\ outTape.present
              /\ outTape' = outTape) => outTape'.trace_id # traceId']_vars
    /\ [][(pc = "returned" /\ ~threw /\ outTape.present /\ outTape.trace_id # traceId) =>
             /\ pc' = "exited" /\ exitCode' = 1
             /\ log'[Len(log')].event = "trace.mismatch"
             /\ UNCHANGED <<nextTask, finalResult, progressHistory, stagnantSteps>>]_vars
    /\ []((pc = "agent" /\ outTape.present) =>
             (outTape.trace_id # traceId /\ inTape.trace_id = traceId))

\* the agent of step 2 wrote nothing: the pending response of step 1 was read again
C35_Witness ==
    /\ pc = "exited" /\ LastEvent = "trace.mismatch" /\ stepCount = 2
    /\ inTape.trace_id = 2 /\ outTape.trace_id = 1 /\ outTape.status = "pending"
    /\ Len(progressHistory) = 1 /\ ~threw

\* C36: the first pending response has no predecessor and leaves the stagnation
\* counter at 0, so the counter stays below the number of records and
\* workflow.stagnant never comes before the 6th agent invocation; with a progress
\* value that never changes it comes at the 6th exactly.
C36_StagnantNotBeforeSixth ==
    /\ Len(progressHistory) <= 1 => stagnantSteps = 0
    /\ progressHistory # <<>> => stagnantSteps < Len(progressHistory)
    /\ "workflow.stagnant" \in Events =>
          /\ invocations >= maxStagnantSteps + 1
          /\ stepCount >= maxStagnantSteps + 1
          /\ Len(progressHistory) >= maxStagnantSteps + 1
    /\ ("workflow.stagnant" \in Events /\ ConstantProgress(progressHistory)) =>
          (invocations = maxStagnantSteps + 1 /\ stepCount = maxStagnantSteps + 1)

\* a signal that drops at every step: the run is ended at the 6th invocation
C36_Witness ==
    /\ pc = "exited" /\ LastEvent = "workflow.stagnant" /\ invocations = 6
    /\ \A i \in 2..Len(progressHistory) :
          progressHistory[i].progress < progressHistory[i - 1].progress

\* the bytes of an archive whose entries are these
ArchivesOf(entries) ==
    {b \in {Pack(GoodCode), Pack(NoRuntimeCode), Pack(CorruptCode), Pack(GoodDeps),
             Pack(CorruptDeps), Pack(NoBootstrapDeps)} : Range(TarEntries(b)) = entries}

\* C38: what is unpacked is what was verified: the trees under dist/_artifacts are the
\* entries of archive bytes whose SHA-256 is the archive_sha256 of the manifests the
\* verification compared with, also when another process rewrites an archive file
\* between the verification and the unpack step.
C38_UnpackedIsVerified ==
    unpacked.done =>
        /\ \E b \in ArchivesOf(unpacked.code) : Sha256(b) = disk.codeManifest.archive_sha256
        /\ \E b \in ArchivesOf(unpacked.deps) : Sha256(b) = disk.depsManifest.archive_sha256

\* the part of C22 that holds: no invocation and no history record after a terminal
\* state, and nothing at all after an abort
TerminalQuiet ==
    [][(Completed \/ Aborted) =>
          /\ invocations' = invocations /\ stepCount' = stepCount
          /\ progressHistory' = progressHistory /\ finalResult' = finalResult
          /\ Aborted => UNCHANGED <<pc, exitCode, log>>]_vars

(***************************************************************************)
(* Packager: packageArtifacts() of src/package.mjs.                        *)
(***************************************************************************)
\* what the inputs (dist/pyodide-wasm + dist/app, and ./vendor) may hold:
\* sets of <<path, data>>
CodeInputs ==
    { {}, {<<Paths.registry, 1>>, <<Paths.agentMain, 1>>, <<Paths.runtime, 1>>},
          {<<Paths.registry, 2>>, <<Paths.agentMain, 1>>, <<Paths.runtime, 1>>} }

DepsInputs ==
    { {}, {<<Paths.micropip, 1>>, <<Paths.packaging, 1>>, <<Paths.numpy, 1>>},
          {<<Paths.micropip, 1>>, <<Paths.packaging, 1>>} }

\* fs.cp into a stage directory: every copy is stamped with the current time
CopyTree(input, now) == {File(e[1], e[2], now) : e \in input}

Content(tree) == {<<f.path, f.data>> : f \in tree}

EmptyDisk ==
    [codeArchive |-> NoFile, codeManifest |-> NoManifest,
     depsArchive |-> NoFile, depsManifest |-> NoManifest,
     codeTmp |-> NoFile, depsTmp |-> NoFile]

\* fail(event) of the packager
pfail ==
    /\ pExit' = 1
    /\ ppc' = "failed"

\* a packaging run starts: the inputs are checked and laid out in fresh stage trees
PkgStage ==
    /\ ppc \in {"idle", "complete", "failed"}
    /\ clock < MaxBuilds
    /\ clock' = clock + 1
    /\ \E inputsExist \in BOOLEAN, c \in CodeInputs, d \in DepsInputs :
          IF ~inputsExist
          THEN /\ pfail
               /\ UNCHANGED <<codeStage, depsStage>>
          ELSE /\ codeStage' = CopyTree(c, clock + 1)
               /\ depsStage' = CopyTree(d, clock + 1)
               /\ ppc' = "manifest_code"
               /\ pExit' = -1
    /\ pHash' = [code |-> Undefined, deps |-> Undefined]
    /\ UNCHANGED <<disk, builds, origin, notPkg>>

\* variant: the manifest of an earlier run is left in place until the final write
InitialManifestKept(old) == old

\* the manifest object before the archives exist: it has no archive_sha256, and
\* fs.writeFile replaces whatever an earlier run left at the path
InitialManifest(old) == Manifest(Undefined)

\* fs.writeFile(codeManifestPath, codeManifest): no archive_sha256 yet
PkgManifestCode ==
    /\ ppc = "manifest_code"
    /\ disk' = [disk EXCEPT !.codeManifest = InitialManifest(disk.codeManifest)]
    /\ ppc' = "manifest_deps"
    /\ UNCHANGED <<pExit, codeStage, depsStage, clock, pHash, builds, origin, notPkg>>

PkgManifestDeps ==
    /\ ppc = "manifest_deps"
    /\ disk' = [disk EXCEPT !.depsManifest = InitialManifest(disk.depsManifest)]
    /\ ppc' = "tar_code"
    /\ UNCHANGED <<pExit, codeStage, depsStage, clock, pHash, builds, origin, notPkg>>

\* variant: the archive is moved to its final path without the entry count check
deterministicTarUnchecked(tree, enum, refuses) ==
    LET rel == listFilesRecursive(enum)
        bytes == TarCreate(tree, rel)
    IN  IF rel = <<>> /\ refuses
        THEN [ok |-> FALSE, written |-> NoFile, tmp |-> NoFile]
        ELSE [ok |-> TRUE, written |-> ArchiveFile(bytes), tmp |-> NoFile]

\* deterministicTar(srcDir, outFile) for a stage tree listed in the order enum:
\* "written" is the archive at the final path, "tmp" what is left at outFile + ".tmp".
\* tar.create refuses an empty list or writes an archive without entries.
deterministicTar(tree, enum, refuses) ==
    LET rel == listFilesRecursive(enum)
        bytes == TarCreate(tree, rel)
    IN  IF rel = <<>> /\ refuses
        THEN [ok |-> FALSE, written |-> NoFile, tmp |-> NoFile]
        ELSE IF Len(TarEntries(bytes)) = 0
        THEN [ok |-> FALSE, written |-> NoFile, tmp |-> ArchiveFile(bytes)]
        ELSE [ok |-> TRUE, written |-> ArchiveFile(bytes), tmp |-> NoFile]

PkgTarCode ==
    /\ ppc = "tar_code"
    /\ \E enum \in SetToSeqs(PathsOf(codeStage)), refuses \in BOOLEAN :
          LET r == deterministicTar(codeStage, enum, refuses)
          IN  IF r.ok
              THEN /\ disk' = [disk EXCEPT !.codeArchive = r.written, !.codeTmp = r.tmp]
                   /\ origin' = [origin EXCEPT !.code = clock]
                   /\ ppc' = "tar_deps"
                   /\ UNCHANGED pExit
              ELSE /\ disk' = [disk EXCEPT !.codeTmp = r.tmp]
                   /\ pfail
                   /\ UNCHANGED origin
    /\ UNCHANGED <<codeStage, depsStage, clock, pHash, builds, notPkg>>

PkgTarDeps ==
    /\ ppc = "tar_deps"
    /\ \E enum \in SetToSeqs(PathsOf(depsStage)), refuses \in BOOLEAN :
          LET r == deterministicTar(depsStage, enum, refuses)
          IN  IF r.ok
              THEN /\ disk' = [disk EXCEPT !.depsArchive = r.written, !.depsTmp = r.tmp]
                   /\ origin' = [origin EXCEPT !.deps = clock]
                   /\ ppc' = "hash"
                   /\ UNCHANGED pExit
              ELSE /\ disk' = [disk EXCEPT !.depsTmp = r.tmp]
                   /\ pfail
                   /\ UNCHANGED origin
    /\ UNCHANGED <<codeStage, depsStage, clock, pHash, builds, notPkg>>

\* variant: the two hashes are taken from the wrong archives
HashArchivesSwapped(d) ==
    [code |-> Sha256(d.depsArchive.bytes), deps |-> Sha256(d.codeArchive.bytes)]

\* codeHash = sha256Path(codeArchive); depsHash = sha256Path(depsArchive)
HashArchives(d) ==
    [code |-> Sha256(d.codeArchive.bytes), deps |-> Sha256(d.depsArchive.bytes)]

PkgHash ==
    /\ ppc = "hash"
    /\ pHash' = HashArchives(disk)
    /\ ppc' = "final_code"
    /\ UNCHANGED <<disk, pExit, codeStage, depsStage, clock, builds, origin, notPkg>>

\* fs.writeFile(codeManifestPath, {...codeManifest, archive_sha256: codeHash})
PkgFinalCode ==
    /\ ppc = "final_code"
    /\ disk' = [disk EXCEPT !.codeManifest = Manifest(pHash.code)]
    /\ ppc' = "final_deps"
    /\ UNCHANGED <<pExit, codeStage, depsStage, clock, pHash, builds, origin, notPkg>>

\* the deps manifest, then log("complete")
PkgFinalDeps ==
    /\ ppc = "final_deps"
    /\ disk' = [disk EXCEPT !.depsManifest = Manifest(pHash.deps)]
    /\ ppc' = "complete"
    /\ pExit' = 0
    /\ builds' = Append(builds, [run |-> clock,
                                 code |-> Content(codeStage), deps |-> Content(depsStage),
                                 codeBytes |-> disk.codeArchive.bytes,
                                 depsBytes |-> disk.depsArchive.bytes,
                                 codeHash |-> pHash.code, depsHash |-> pHash.deps])
    /\ UNCHANGED <<codeStage, depsStage, clock, pHash, origin, notPkg>>

\* a file that was being written when the process stopped
Truncated == ArchiveFile(<<"truncated">>)

\* what a write interrupted at position at may leave on disk d
TornWrites(d, at) ==
    IF at \in {"manifest_code", "final_code"} THEN {d, [d EXCEPT !.codeManifest = BadManifest]}
    ELSE IF at \in {"manifest_deps", "final_deps"}
    THEN {d, [d EXCEPT !.depsManifest = BadManifest]}
    ELSE IF at = "tar_code" THEN {d, [d EXCEPT !.codeTmp = Truncated]}
    ELSE IF at = "tar_deps" THEN {d, [d EXCEPT !.depsTmp = Truncated]}
    ELSE {d}

\* any awaited file operation rejects (.catch -> fail("fatal")), or the process is
\* stopped: the run ends where it is, possibly in the middle of a write
PkgAbort ==
    /\ ppc \in {"manifest_code", "manifest_deps", "tar_code", "tar_deps", "hash",
                "final_code", "final_deps"}
    /\ disk' \in TornWrites(disk, ppc)
    /\ pfail
    /\ UNCHANGED <<codeStage, depsStage, clock, pHash, builds, origin, notPkg>>

PkgNext ==
    \/ PkgStage \/ PkgManifestCode \/ PkgManifestDeps \/ PkgTarCode \/ PkgTarDeps
    \/ PkgHash \/ PkgFinalCode \/ PkgFinalDeps \/ PkgAbort

InitPackage ==
    /\ disk = EmptyDisk
    /\ PkgIdle
    /\ RunInit
    /\ ResIdle
    /\ DisIdle
    /\ VenIdle

SpecPackage == InitPackage /\ [][PkgNext]_vars

\* C8: after a packaging run has completed, both archives verify against their
\* manifests: the archive_sha256 written into each manifest is the hash of the final
\* archive file at its final path.
C8_RoundTrip ==
    ppc = "complete" =>
        /\ verifyArchive(disk.codeArchive, disk.codeManifest) = "archive.verified"
        /\ verifyArchive(disk.depsArchive, disk.depsManifest) = "archive.verified"
        /\ disk.codeManifest.archive_sha256 = Sha256(disk.codeArchive.bytes)
        /\ disk.depsManifest.archive_sha256 = Sha256(disk.depsArchive.bytes)

C8_Witness ==
    /\ ppc = "complete" /\ Len(builds) = 2
    /\ builds[1].code # builds[2].code /\ builds[1].deps # builds[2].deps

AscendingPaths(entries) == \A i \in 2..Len(entries) : entries[i - 1][1] < entries[i][1]

\* C10: two packaging runs over staged trees with the same paths and contents give
\* archives with the same entries in the same, sorted, order and the same bytes, so
\* the same archive_sha256, whatever the enumeration order of the directories and the
\* modification times of the files.
C10_Deterministic ==
    \A i \in 1..Len(builds), j \in 1..Len(builds) :
        /\ AscendingPaths(TarEntries(builds[i].codeBytes))
        /\ AscendingPaths(TarEntries(builds[i].depsBytes))
        /\ builds[i].code = builds[j].code =>
              (builds[i].codeBytes = builds[j].codeBytes /\ builds[i].codeHash = builds[j].codeHash)
        /\ builds[i].deps = builds[j].deps =>
              (builds[i].depsBytes = builds[j].depsBytes /\ builds[i].depsHash = builds[j].depsHash)

C10_Witness ==
    /\ Len(builds) = 2 /\ ppc = "complete"
    /\ builds[1].code = builds[2].code /\ builds[1].deps = builds[2].deps
    /\ \A f \in codeStage \cup depsStage : f.mtime = 2

\* the archive tar.create writes for an empty list of files
EmptyArchive == ArchiveFile(TarCreate({}, <<>>))

\* C11: when the archive written to the temporary path has zero entries, the
\* packaging run fails (exit code 1) in that step, the final path and the manifest
\* are left as they were, and the manifest carries no archive_sha256; an archive
\* without entries is never at a final path and no manifest names its hash.
C11_EmptyArchiveFails ==
    [][ /\ (ppc = "tar_code" /\ disk'.codeTmp = EmptyArchive) =>
              /\ ppc' = "failed" /\ pExit' = 1
              /\ disk'.codeArchive = disk.codeArchive
              /\ disk'.codeManifest = disk.codeManifest
              /\ ~Truthy(disk'.codeManifest.archive_sha256)
        /\ (ppc = "tar_deps" /\ disk'.depsTmp = EmptyArchive) =>
              /\ ppc' = "failed" /\ pExit' = 1
              /\ disk'.depsArchive = disk.depsArchive
              /\ disk'.depsManifest = disk.depsManifest
              /\ ~Truthy(disk'.depsManifest.archive_sha256)
        /\ disk'.codeArchive # EmptyArchive /\ disk'.depsArchive # EmptyArchive
        /\ disk'.codeManifest.archive_sha256 # Sha256(EmptyArchive.bytes)
        /\ disk'.depsManifest.archive_sha256 # Sha256(EmptyArchive.bytes) ]_vars

\* the code archive of this run was moved into place, then the deps archive came out
\* empty
C11_Witness ==
    /\ ppc = "failed" /\ disk.depsTmp = EmptyArchive
    /\ disk.codeArchive.exists /\ origin.code = clock
    /\ ~Truthy(disk.depsManifest.archive_sha256)

\* C12: whenever both archive/manifest pairs on disk pass verification, the two
\* archives were moved into place by the same packaging run, that run completed, and
\* the files are the whole archives it built (never a truncated or an empty one).
C12_NoPartialValid ==
    (Passes(disk.codeArchive, disk.codeManifest)
        /\ Passes(disk.depsArchive, disk.depsManifest)) =>
        /\ origin.code = origin.deps
        /\ \E i \in 1..Len(builds) :
              /\ builds[i].run = origin.code
              /\ builds[i].codeBytes = disk.codeArchive.bytes
              /\ builds[i].depsBytes = disk.depsArchive.bytes
        /\ disk.codeArchive \notin {Truncated, EmptyArchive}
        /\ disk.depsArchive \notin {Truncated, EmptyArchive}

\* a run failed midway, and the next run rebuilt over what it left behind
C12_Witness ==
    /\ Passes(disk.codeArchive, disk.codeManifest)
    /\ Passes(disk.depsArchive, disk.depsManifest)
    /\ ppc = "complete" /\ Len(builds) = 1 /\ builds[1].run = 2
    /\ origin = [code |-> 2, deps |-> 2]

(***************************************************************************)
(* Dependency resolver: resolveDependencies() of src/vendor.mjs, and the   *)
(* .sort() its caller applies to the result.                               *)
(***************************************************************************)
\* package names are numbers, so that they sort; each may be missing from the catalog
Names == {1, 2, 3}

\* a requirement line that is the name of a property every JavaScript object inherits
\* from Object.prototype ("constructor", "toString", "valueOf", ...); packagesData is
\* the object JSON.parse built, so it has them all
InheritedNames == {0}

RequirementNames == Names \cup InheritedNames

\* the sequences without repetition over S, of length at most n
RECURSIVE ListsUpTo(_, _)
ListsUpTo(S, n) ==
    IF n = 0 THEN {<<>>}
    ELSE {<<>>} \cup UNION {{<<x>> \o t : t \in ListsUpTo(S \ {x}, n - 1)} : x \in S}

NoEntry == [present |-> FALSE, depends |-> <<>>]

Catalogs ==
    [Names -> {NoEntry} \cup {[present |-> TRUE, depends |-> d] : d \in ListsUpTo(Names, MaxDeps)}]

\* for (const d of deps) stack.push(d)
RECURSIVE PushAll(_, _)
PushAll(stk, deps) ==
    IF deps = <<>> THEN stk ELSE PushAll(Append(stk, Head(deps)), Tail(deps))

InSeq(x, s) == \E i \in 1..Len(s) : s[i] = x

\* const info = packagesData[name]: the catalog's own entry, else the value found on
\* the prototype chain (truthy, and without a depends property), else undefined
Lookup(catalog, name) ==
    IF name \in Names /\ catalog[name].present THEN catalog[name]
    ELSE IF name \in InheritedNames THEN [present |-> TRUE, depends |-> <<>>]
    ELSE NoEntry

\* variant: a name missing from the catalog is added all the same
ResolveIterationKeepsMissing(catalog, stk, res) ==
    LET name == stk[Len(stk)]
        below == SubSeq(stk, 1, Len(stk) - 1)
    IN  IF InSeq(name, res) THEN [stack |-> below, resolved |-> res, warn |-> {}]
        ELSE IF ~Lookup(catalog, name).present
        THEN [stack |-> below, resolved |-> Append(res, name), warn |-> {name}]
        ELSE [stack |-> PushAll(below, Lookup(catalog, name).depends),
              resolved |-> Append(res, name), warn |-> {}]

\* variant: a name is expanded every time it is popped
ResolveIterationUnchecked(catalog, stk, res) ==
    LET name == stk[Len(stk)]
        below == SubSeq(stk, 1, Len(stk) - 1)
    IN  IF ~Lookup(catalog, name).present
        THEN [stack |-> below, resolved |-> res, warn |-> {name}]
        ELSE [stack |-> PushAll(below, Lookup(catalog, name).depends),
              resolved |-> Append(res, name), warn |-> {}]

\* one iteration of while (stack.length)
ResolveIteration(catalog, stk, res) ==
    LET name == stk[Len(stk)]
        below == SubSeq(stk, 1, Len(stk) - 1)
    IN  IF InSeq(name, res) THEN [stack |-> below, resolved |-> res, warn |-> {}]
        ELSE IF ~Lookup(catalog, name).present
        THEN [stack |-> below, resolved |-> res, warn |-> {name}]
        ELSE [stack |-> PushAll(below, Lookup(catalog, name).depends),
              resolved |-> Append(res, name), warn |-> {}]

ResInit ==
    /\ rpc = "resolve"
    /\ packagesData \in Catalogs
    /\ rootPkgs \in ListsUpTo(RequirementNames, MaxRoots)
    /\ stack = rootPkgs
    /\ resolved = <<>>
    /\ closure = <<>>
    /\ warned = {}

ResolveStep ==
    /\ rpc = "resolve"
    /\ stack # <<>>
    /\ LET r == ResolveIteration(packagesData, stack, resolved)
       IN  /\ stack' = r.stack
           /\ resolved' = r.resolved
           /\ warned' = warned \cup r.warn
    /\ UNCHANGED <<rpc, packagesData, rootPkgs, closure, disk, notRes>>

\* return Array.from(resolved), and the caller's .sort()
ResolveReturn ==
    /\ rpc = "resolve"
    /\ stack = <<>>
    /\ closure' = SortAsc(resolved)
    /\ rpc' = "done"
    /\ UNCHANGED <<packagesData, rootPkgs, stack, resolved, warned, disk, notRes>>

ResNext == ResolveStep \/ ResolveReturn

InitResolve ==
    /\ disk = EmptyDisk
    /\ RunInit
    /\ PkgIdle
    /\ ResInit
    /\ DisIdle
    /\ VenIdle

SpecResolve == InitResolve /\ [][ResNext]_vars

\* the catalog names reachable from the requested names through catalog entries
RECURSIVE ReachFrom(_, _)
ReachFrom(catalog, S) ==
    LET step == S \cup {d \in Names : catalog[d].present
                           /\ \E n \in S : InSeq(d, catalog[n].depends)}
    IN  IF step = S THEN S ELSE ReachFrom(catalog, step)

InCatalog(n) == n \in Names /\ packagesData[n].present

Reachable == ReachFrom(packagesData, {r \in Range(rootPkgs) : InCatalog(r)})

\* C9: the resolver's result is exactly the set of catalog names reachable from the
\* requested names along depends edges through catalog entries, without duplicates
\* and without any name absent from the catalog, and the sorted list is the same for
\* every ordering of the requested list and of the depends lists (it is the ascending
\* list of that set).
C9_Closure ==
    rpc = "done" =>
        /\ Range(closure) = Reachable
        /\ Len(closure) = Cardinality(Reachable)
        /\ \A n \in Range(closure) : InCatalog(n)
        /\ \A i \in 2..Len(closure) : closure[i - 1] < closure[i]

\* the same closure property, for requested lists that name no inherited property
ClosureOfCatalogNames ==
    (rpc = "done" /\ Range(rootPkgs) \subseteq Names) =>
        /\ Range(closure) = Reachable
        /\ Len(closure) = Cardinality(Reachable)
        /\ \A i \in 2..Len(closure) : closure[i - 1] < closure[i]

\* the number of depends edges of the catalog
RECURSIVE EdgeCount(_, _)
EdgeCount(catalog, S) ==
    IF S = {} THEN 0
    ELSE LET n == CHOOSE x \in S : TRUE
         IN  Len(catalog[n].depends) + EdgeCount(catalog, S \ {n})

\* the names the lookup finds that are not resolved yet
Unexpanded ==
    Cardinality({n \in RequirementNames :
                    Lookup(packagesData, n).present /\ ~InSeq(n, resolved)})

\* C26: resolution terminates for every catalog and requested list, cyclic or chained
\* depends edges included: every iteration of the loop either expands a name that was
\* not expanded before or shortens the stack (so the pair <<names left to expand,
\* stack length>> decreases in the lexicographic order until the loop returns), every
\* name is expanded at most once, and the stack never holds more than the requested
\* names and one entry per depends edge.
C26_ResolveTerminates ==
    /\ [][rpc = "resolve" =>
             \/ rpc' = "done" /\ stack = <<>>
             \/ rpc' = "resolve" /\ Unexpanded' < Unexpanded
             \/ rpc' = "resolve" /\ Unexpanded' = Unexpanded /\ Len(stack') < Len(stack)]_vars
    /\ [](/\ \A i, j \in 1..Len(resolved) : i # j => resolved[i] # resolved[j]
          /\ Len(stack) <= Len(rootPkgs) + EdgeCount(packagesData, Names))

\* a cycle through the three names, entered from one of them
C26_Witness ==
    /\ rpc = "done" /\ rootPkgs = <<1>> /\ closure = <<1, 2, 3>>
    /\ packagesData[1].depends = <<2>> /\ packagesData[2].depends = <<3>>
    /\ packagesData[3].depends = <<1>>

\* the names the resolution came across: the requested ones and those in the depends
\* lists of the reachable catalog entries
Referenced ==
    Range(rootPkgs) \cup {d \in Names : \E n \in Reachable : InSeq(d, packagesData[n].depends)}

\* C27: a name absent from the catalog never makes the resolution fail: requested or
\* named by a depends list, it is reported by a warning and left out of the closure,
\* and every reachable catalog name is in the closure all the same.
C27_MissingOmitted ==
    rpc = "done" =>
        /\ \A n \in Referenced : ~InCatalog(n) => (n \in warned /\ n \notin Range(closure))
        /\ \A n \in warned : ~InCatalog(n)
        /\ Reachable \subseteq Range(closure)

\* the part of C27 that holds: the resolution always returns, the missing names that
\* are not inherited property names are warned about and left out, and the reachable
\* catalog names are all in the closure
MissingCatalogNamesOmitted ==
    /\ rpc = "resolve" => (stack # <<>> \/ ENABLED ResolveReturn)
    /\ rpc = "done" =>
          /\ \A n \in Referenced \cap Names :
                ~InCatalog(n) => (n \in warned /\ n \notin Range(closure))
          /\ \A n \in warned : ~InCatalog(n)
          /\ Reachable \subseteq Range(closure)

\* a cycle between two requested entries, one of which also names a missing package
CycleResolved ==
    /\ rpc = "done" /\ Len(closure) = 2 /\ warned # {}
    /\ \E a \in Names, b \in Names :
          /\ a # b /\ packagesData[a].present /\ packagesData[b].present
          /\ InSeq(b, packagesData[a].depends) /\ InSeq(a, packagesData[b].depends)
          /\ rootPkgs = <<b, a>>

(***************************************************************************)
(* Agent discovery and staging: discoverAgents() and step 3 of compile()   *)
(* in the compile script (src/unnamed/part_001).                           *)
(***************************************************************************)
\* directory names, cut into the pieces the naming convention looks at:
\* "agent", "agent-agent", "agent-multiplier", "agent-", "agents", "lib"
DirNames ==
    { <<"agent">>, <<"agent", "-", "agent">>, <<"agent", "-", "multiplier">>,
      <<"agent", "-">>, <<"agent", "s">>, <<"lib">> }

\* a plain file, a directory without main.py, a directory with main.py
Kinds == {"file", "dir", "agentdir"}

Dirent(n, k) == [name |-> n, isDirectory |-> k # "file", hasMain |-> k = "agentdir"]

\* the listings readdir(".") may return: at most n entries with distinct names, in
\* any order
Workspaces(n) ==
    {l \in UNION {[1..m -> {Dirent(d, k) : d \in DirNames, k \in Kinds}] : m \in 0..n} :
        \A i, j \in 1..Len(l) : i # j => l[i].name # l[j].name}

startsWith(str, prefix) ==
    Len(str) >= Len(prefix) /\ SubSeq(str, 1, Len(prefix)) = prefix

\* the agent name of a directory name, <<name>>, or <<>> when it is not an agent
\* directory: "agent" is itself, "agent-x" is x (dirName.substring(6))
agentNameOf(dirName) ==
    IF dirName = <<"agent">> THEN <<dirName>>
    ELSE IF startsWith(dirName, <<"agent", "-">>) THEN <<SubSeq(dirName, 3, Len(dirName))>>
    ELSE <<>>

\* variant: the list is returned without looking for the root agent
hasRootAgentUnchecked(found) == TRUE

\* agents.some(a => a.name === "agent")
hasRootAgent(found) == \E i \in 1..Len(found) : found[i].name = <<"agent">>

dfail ==
    /\ dExit' = 1
    /\ dpc' = "failed"

DisInit ==
    /\ dpc = "discover"
    /\ dExit = -1
    /\ dirents \in Workspaces(MaxEntries)
    /\ scanned = 0
    /\ agents = <<>>
    /\ appStage = {}
    /\ registryFile = NoRegistryFile

\* one iteration of for (const entry of entries)
DiscoverEntry ==
    /\ dpc = "discover"
    /\ scanned < Len(dirents)
    /\ LET entry == dirents[scanned + 1]
           agentName == agentNameOf(entry.name)
       IN  agents' = IF entry.isDirectory /\ agentName # <<>> /\ entry.hasMain
                     THEN Append(agents, [name |-> agentName[1], sourceDir |-> entry.name])
                     ELSE agents
    /\ scanned' = scanned + 1
    /\ UNCHANGED <<dpc, dExit, dirents, appStage, registryFile, notDis>>

\* the check after the loop: fail("agent.missing.root") or return agents
DiscoverReturn ==
    /\ dpc = "discover"
    /\ scanned = Len(dirents)
    /\ IF hasRootAgent(agents)
       THEN /\ dpc' = "stage"
            /\ scanned' = 0
            /\ UNCHANGED dExit
       ELSE /\ dfail
            /\ UNCHANGED scanned
    /\ UNCHANGED <<dirents, agents, appStage, registryFile, notDis>>

\* one iteration of for (const agent of agents): copyDir(agent.sourcePath,
\* dist/app/<agent.name>), or the copy throws and fail("app.stage.fail")
StageAgent ==
    /\ dpc = "stage"
    /\ scanned < Len(agents)
    /\ \E copied \in BOOLEAN :
          IF copied
          THEN /\ appStage' = appStage \cup {[target |-> agents[scanned + 1].name,
                                              sourceDir |-> agents[scanned + 1].sourceDir]}
               /\ scanned' = scanned + 1
               /\ UNCHANGED <<dpc, dExit>>
          ELSE /\ dfail
               /\ UNCHANGED <<appStage, scanned>>
    /\ UNCHANGED <<dirents, agents, registryFile, notDis>>

\* fs.writeFile(agent_registry.json, {agents: [...], rootAgent: "agent"})
WriteRegistry ==
    /\ dpc = "stage"
    /\ scanned = Len(agents)
    /\ registryFile' =
          [written |-> TRUE,
           agents |-> [i \in 1..Len(agents) |->
                          [name |-> agents[i].name, sourceDir |-> agents[i].sourceDir,
                           modulePath |-> agents[i].name \o <<".main">>]],
           rootAgent |-> <<"agent">>]
    /\ dpc' = "complete"
    /\ dExit' = 0
    /\ UNCHANGED <<dirents, scanned, agents, appStage, notDis>>

DisNext == DiscoverEntry \/ DiscoverReturn \/ StageAgent \/ WriteRegistry

InitDiscover ==
    /\ disk = EmptyDisk
    /\ RunInit
    /\ PkgIdle
    /\ ResIdle
    /\ DisInit
    /\ VenIdle

SpecDiscover == InitDiscover /\ [][DisNext]_vars

\* C13: when the discovery loop is over and no discovered agent is the root agent, the
\* build has failed, nothing is staged and no registry is written; a registry that is
\* written has a rootAgent that is the name of one of its agents.
C13_RootRequired ==
    /\ (dpc # "discover" /\ dpc # "idle" /\ ~hasRootAgent(agents)) =>
          (dpc = "failed" /\ dExit = 1 /\ appStage = {} /\ ~registryFile.written)
    /\ (appStage # {} \/ registryFile.written) => hasRootAgent(agents)
    /\ registryFile.written =>
          \E i \in 1..Len(registryFile.agents) :
              registryFile.agents[i].name = registryFile.rootAgent

\* agents were discovered, none of them the root
C13_Witness ==
    /\ dpc = "failed" /\ scanned = Len(dirents)
    /\ Len(agents) >= 1 /\ ~hasRootAgent(agents)
    /\ appStage = {} /\ ~registryFile.written

\* C14: the descriptors of a written registry have pairwise distinct names, and each
\* staged directory holds the copy of exactly one source directory.
C14_UniqueNames ==
    registryFile.written =>
        /\ \A i, j \in 1..Len(registryFile.agents) :
              i # j => registryFile.agents[i].name # registryFile.agents[j].name
        /\ \A a, b \in appStage : a.target = b.target => a.sourceDir = b.sourceDir

(***************************************************************************)
(* Vendoring: vendorDependencies() and fetchToFile() of src/vendor.mjs.    *)
(* A string is a sequence of pieces: a package name is one piece (the      *)
(* catalog names 1..3 and the inherited property name 0), the other pieces *)
(* are characters.  All the characters that occur sort before letters, as  *)
(* in the code unit order JavaScript's sort() uses.                        *)
(***************************************************************************)
Chars == [space |-> -7, bang |-> -6, hash |-> -5, digit |-> -4, lt |-> -3, eq |-> -2,
          gt |-> -1]

Pkg == [constructor |-> 0, micropip |-> 1, numpy |-> 2, packaging |-> 3]

\* the lines a requirements.txt may hold: " ", " numpy ", "numpy==1", "# numpy"
Lines ==
    { <<Chars.space>>, <<Chars.space, Pkg.numpy, Chars.space>>,
      <<Pkg.numpy, Chars.eq, Chars.eq, Chars.digit>>,
      <<Chars.hash, Chars.space, Pkg.numpy>> }

NoReqFile == [exists |-> FALSE, lines |-> <<>>]

ReqFile(ls) == [exists |-> TRUE, lines |-> ls]

\* sequences over S, repetitions allowed, of length at most n
RECURSIVE SeqsUpTo(_, _)
SeqsUpTo(S, n) ==
    IF n = 0 THEN {<<>>}
    ELSE {<<>>} \cup {<<x>> \o t : x \in S, t \in SeqsUpTo(S, n - 1)}

ReqFiles == {NoReqFile} \cup {ReqFile(ls) : ls \in SeqsUpTo(Lines, MaxLines)}

\* an entry of the workspace listing, as far as vendoring looks at it
VDirent(n, d, r) == [name |-> n, isDirectory |-> d, requirements |-> r]

VDirNames == { <<"agent">>, <<"agent", "s">>, <<"lib">> }

\* the listings readdir(".") may return: at most n entries with distinct names; a
\* directory may hold a requirements.txt
VWorkspaces(n) ==
    {l \in UNION {[1..m -> {VDirent(d, FALSE, NoReqFile) : d \in VDirNames}
                            \cup {VDirent(d, TRUE, r) : d \in VDirNames, r \in ReqFiles}] :
                     m \in 0..n} :
        \A i, j \in 1..Len(l) : i # j => l[i].name # l[j].name}

\* entries.filter(e => e.isDirectory() && e.name.startsWith("agent"))
agentDirsOf(listing) ==
    SelectSeq(listing, LAMBDA e : e.isDirectory /\ startsWith(e.name, <<"agent">>))

\* s.trim()
RECURSIVE trimStart(_)
trimStart(str) ==
    IF str # <<>> /\ Head(str) = Chars.space THEN trimStart(Tail(str)) ELSE str

RECURSIVE trimEnd(_)
trimEnd(str) ==
    IF str # <<>> /\ str[Len(str)] = Chars.space
    THEN trimEnd(SubSeq(str, 1, Len(str) - 1)) ELSE str

trim(str) == trimEnd(trimStart(str))

\* content.split("\n").map(s => s.trim()).filter(Boolean): what one file adds
requirementsOf(file) ==
    IF ~file.exists THEN {} ELSE {trim(file.lines[i]) : i \in 1..Len(file.lines)} \ {<<>>}

\* the order of the default sort(): by code units, a proper prefix first
RECURSIVE StrLeq(_, _)
StrLeq(a, b) ==
    IF a = <<>> THEN TRUE
    ELSE IF b = <<>> THEN FALSE
    ELSE IF Head(a) # Head(b) THEN Head(a) < Head(b)
    ELSE StrLeq(Tail(a), Tail(b))

RECURSIVE InsertStr(_, _)
InsertStr(x, strs) ==
    IF strs = <<>> THEN <<x>>
    ELSE IF StrLeq(x, Head(strs)) THEN <<x>> \o strs
    ELSE <<Head(strs)>> \o InsertStr(x, Tail(strs))

RECURSIVE SortStrings(_)
SortStrings(strs) ==
    IF strs = <<>> THEN <<>> ELSE InsertStr(Head(strs), SortStrings(Tail(strs)))

\* variant: only the installer itself is added
BootstrapInstallerOnly == {Pkg.micropip}

\* ["micropip", "packaging"]
Bootstrap == {Pkg.micropip, Pkg.packaging}

\* the name a string is as a key of packagesData; every string that is not a package
\* name is a key the catalog does not have
Absent == 4

KeyOf(str) == IF Len(str) = 1 /\ str[1] \in RequirementNames THEN str[1] ELSE Absent

\* pyodide-lock.json: micropip needs packaging; numpy may be missing, and an entry may
\* lack its file_name
LockEntry(deps, hasFile) == [present |-> TRUE, depends |-> deps, file_name |-> hasFile]

NoLockEntry == [present |-> FALSE, depends |-> <<>>, file_name |-> FALSE]

VendorCatalogs ==
    { [n \in Names |-> IF n = Pkg.micropip THEN LockEntry(<<Pkg.packaging>>, TRUE)
                       ELSE LockEntry(<<>>, TRUE)],
      [n \in Names |-> IF n = Pkg.micropip THEN LockEntry(<<Pkg.packaging>>, TRUE)
                       ELSE IF n = Pkg.numpy THEN NoLockEntry ELSE LockEntry(<<>>, TRUE)],
      [n \in Names |-> IF n = Pkg.micropip THEN LockEntry(<<Pkg.packaging>>, TRUE)
                       ELSE IF n = Pkg.numpy THEN LockEntry(<<Pkg.packaging>>, FALSE)
                       ELSE LockEntry(<<>>, TRUE)],
      [n \in Names |-> NoLockEntry] }

\* !pkg || !pkg.file_name
hasFileName(catalog, name) ==
    name \in Names /\ catalog[name].present /\ catalog[name].file_name

fetchAttempts == 3

\* variant: one more attempt before giving up
lastAttemptLate(i) == i = fetchAttempts + 1

\* if (i === attempts) throw e
lastAttempt(i) == i = fetchAttempts

vfail ==
    /\ vExit' = 1
    /\ vpc' = "failed"

VenInit ==
    /\ vpc = "collect"
    /\ vExit = -1
    /\ agentDirs \in {agentDirsOf(w) : w \in VWorkspaces(MaxDirs)}
    /\ dirCount = Len(agentDirs)
    /\ discovered = {}
    /\ requested = <<>>
    /\ fetchIdx = 0
    /\ attempt = 0
    /\ attemptsMade = [n \in RequirementNames |-> 0]
    /\ vendorDir = {}
    /\ failedPkgs = {}
    /\ skippedPkgs = {}
    /\ vendorManifest = NoVendorManifest

\* one iteration of for (const d of agentDirs)
VCollect ==
    /\ vpc = "collect"
    /\ agentDirs # <<>>
    /\ discovered' = discovered \cup requirementsOf(Head(agentDirs).requirements)
    /\ agentDirs' = Tail(agentDirs)
    /\ UNCHANGED <<vpc, vExit, dirCount, requested, fetchIdx, attempt, attemptsMade,
                   vendorDir, failedPkgs, skippedPkgs, vendorManifest, resVars, notVen>>

\* the bootstrap packages are added; requested = Array.from(discovered).sort()
VCombine ==
    /\ vpc = "collect"
    /\ agentDirs = <<>>
    /\ discovered' = discovered \cup {<<b>> : b \in Bootstrap}
    /\ requested' = SortStrings(CHOOSE q \in SetToSeqs(discovered') : TRUE)
    /\ vpc' = "lock"
    /\ UNCHANGED <<vExit, agentDirs, dirCount, fetchIdx, attempt, attemptsMade,
                   vendorDir, failedPkgs, skippedPkgs, vendorManifest, resVars, notVen>>

\* pyodide-lock.json is read (or fail("pyodide.lock.read.fail")) and
\* resolveDependencies(requested, packagesData) is called
VLoadLock ==
    /\ vpc = "lock"
    /\ \E readable \in BOOLEAN, catalog \in VendorCatalogs :
          IF ~readable
          THEN /\ vfail
               /\ UNCHANGED <<resVars, fetchIdx>>
          ELSE /\ packagesData' = catalog
               /\ rootPkgs' = [i \in 1..Len(requested) |-> KeyOf(requested[i])]
               /\ stack' = rootPkgs'
               /\ resolved' = <<>>
               /\ closure' = <<>>
               /\ warned' = {}
               /\ rpc' = "resolve"
               /\ vpc' = "download"
               /\ fetchIdx' = 1
               /\ UNCHANGED vExit
    /\ UNCHANGED <<agentDirs, dirCount, discovered, requested, attempt, attemptsMade,
                   vendorDir, failedPkgs, skippedPkgs, vendorManifest, notVen>>

\* for (const name of closure): pkg.skip, or download.begin and the call of fetchToFile
VNextPackage ==
    /\ vpc = "download" /\ rpc = "done"
    /\ attempt = 0
    /\ fetchIdx <= Len(closure)
    /\ IF hasFileName(packagesData, closure[fetchIdx])
       THEN /\ attempt' = 1
            /\ UNCHANGED <<fetchIdx, skippedPkgs>>
       ELSE /\ skippedPkgs' = skippedPkgs \cup {closure[fetchIdx]}
            /\ fetchIdx' = fetchIdx + 1
            /\ UNCHANGED attempt
    /\ UNCHANGED <<vpc, vExit, agentDirs, dirCount, discovered, requested, attemptsMade,
                   vendorDir, failedPkgs, vendorManifest, resVars, notVen>>

\* one iteration of for (let i = 1; i <= attempts; i++) in fetchToFile, and what its
\* caller does when it returns or throws
VFetch ==
    /\ vpc = "download" /\ rpc = "done"
    /\ attempt >= 1
    /\ LET name == closure[fetchIdx]
       IN  /\ attemptsMade' = [attemptsMade EXCEPT ![name] = @ + 1]
           /\ \E fetched \in BOOLEAN :
                 IF fetched
                 THEN /\ vendorDir' = vendorDir \cup {name}
                      /\ attempt' = 0
                      /\ fetchIdx' = fetchIdx + 1
                      /\ UNCHANGED failedPkgs
                 ELSE IF lastAttempt(attempt)
                 THEN /\ failedPkgs' = failedPkgs \cup {name}
                      /\ attempt' = 0
                      /\ fetchIdx' = fetchIdx + 1
                      /\ UNCHANGED vendorDir
                 ELSE /\ attempt' = attempt + 1
                      /\ UNCHANGED <<fetchIdx, vendorDir, failedPkgs>>
    /\ UNCHANGED <<vpc, vExit, agentDirs, dirCount, discovered, requested, skippedPkgs,
                   vendorManifest, resVars, notVen>>

\* the manifest is built from the .whl files in ./vendor and written
VManifest ==
    /\ vpc = "download" /\ rpc = "done"
    /\ attempt = 0
    /\ fetchIdx > Len(closure)
    /\ vendorManifest' =
          [written |-> TRUE, requested_packages |-> requested,
           resolved_packages |-> closure,
           files |-> SortAsc(CHOOSE q \in SetToSeqs(vendorDir) : TRUE)]
    /\ vpc' = "complete"
    /\ vExit' = 0
    /\ UNCHANGED <<agentDirs, dirCount, discovered, requested, fetchIdx, attempt,
                   attemptsMade, vendorDir, failedPkgs, skippedPkgs, resVars, notVen>>

VenNext ==
    \/ VCollect \/ VCombine \/ VLoadLock \/ ResolveStep \/ ResolveReturn
    \/ VNextPackage \/ VFetch \/ VManifest

InitVendor ==
    /\ disk = EmptyDisk
    /\ RunInit
    /\ PkgIdle
    /\ ResIdle
    /\ DisIdle
    /\ VenInit

SpecVendor == InitVendor /\ [][VenNext]_vars

\* the characters that start a version qualifier
Qualifiers == {Chars.gt, Chars.eq, Chars.lt, Chars.bang}

\* the text before the first of > = < !
RECURSIVE beforeQualifier(_)
beforeQualifier(str) ==
    IF str = <<>> \/ Head(str) \in Qualifiers THEN <<>>
    ELSE <<Head(str)>> \o beforeQualifier(Tail(str))

\* the package names a declaration file declares: one per requirement line, without
\* the qualifier; blank lines and lines that start with # declare nothing
DeclaredNames(file) ==
    IF ~file.exists THEN {}
    ELSE {trim(beforeQualifier(trim(file.lines[i]))) :
             i \in {j \in 1..Len(file.lines) :
                       /\ trim(file.lines[j]) # <<>>
                       /\ Head(trim(file.lines[j])) # Chars.hash}}

\* C15: reading the declaration file of an agent directory adds to the requested set
\* exactly the package names of its requirement lines, version qualifier stripped, and
\* nothing for blank lines and lines that start with #.
C15_QualifierStripped ==
    [][ (vpc = "collect" /\ agentDirs # <<>>) =>
            discovered' = discovered \cup DeclaredNames(Head(agentDirs).requirements) ]_vars

\* C18: a package is fetched at most 3 times; a fetch is made only for the package the
\* loop is at, which has neither been downloaded nor reported as failed, and it is
\* that package's own attempt number (the count starts at 1 for every package,
\* whatever happened to the others); a package is reported as failed exactly when its
\* 3rd fetch has failed.
C18_BoundedRetry ==
    [][ /\ \A n \in RequirementNames :
              /\ attemptsMade'[n] <= fetchAttempts
              /\ n \in failedPkgs' <=> (attemptsMade'[n] = fetchAttempts /\ n \notin vendorDir')
              /\ n \in vendorDir' => attemptsMade'[n] >= 1
              /\ attemptsMade'[n] # attemptsMade[n] =>
                    /\ n = closure[fetchIdx]
                    /\ n \notin vendorDir /\ n \notin failedPkgs
                    /\ attemptsMade'[n] = attempt
                    /\ attemptsMade'[n] = attemptsMade[n] + 1
        /\ (attempt' = 1 /\ attempt = 0) => attemptsMade[closure[fetchIdx]] = 0 ]_vars

\* one package was given up after 3 fetches, another one arrived at its 2nd fetch
C18_Witness ==
    /\ vpc = "complete"
    /\ \E a \in failedPkgs, b \in vendorDir :
          attemptsMade[a] = fetchAttempts /\ attemptsMade[b] = 2

\* the packages of the closure that have an archive file in the catalog
Downloadable == {n \in Range(closure) : hasFileName(packagesData, n)}

\* C19: a download that has failed for good does not stop the pass (every package of
\* the closure is still attempted and the manifest is written), unless a bootstrap
\* package failed: then the pass fails and does not complete.
C19_BootstrapFailureFatal ==
    /\ (vpc = "complete" /\ failedPkgs \cap Bootstrap = {}) =>
          (vendorManifest.written /\ Downloadable \subseteq (vendorDir \cup failedPkgs))
    /\ (failedPkgs \cap Bootstrap # {} /\ vpc \notin {"download"}) =>
          (vpc = "failed" /\ vExit = 1 /\ ~vendorManifest.written)

\* the part of C19 that holds: whatever fails, every package is attempted and the
\* manifest is written
FailureIsolated ==
    vpc = "complete" =>
        (vendorManifest.written /\ Downloadable \subseteq (vendorDir \cup failedPkgs))

\* C28: over a workspace whose listing has no agent directory the pass fails at
\* discovery: no requested set, no closure and no vendor manifest come out of it.
C28_ZeroAgentDirsFails ==
    dirCount = 0 =>
        /\ vpc \in {"collect", "failed"}
        /\ vpc = "failed" => vExit = 1
        /\ requested = <<>> /\ rpc = "idle" /\ closure = <<>>
        /\ ~vendorManifest.written

\* C29: whatever the workspace holds, once the requirements are combined the requested
\* list has micropip and packaging, and the resolved closure has each of the two that
\* the catalog has, with everything the catalog reaches from it.
C29_BootstrapAlwaysRequested ==
    /\ vpc # "collect" =>
          /\ {<<Pkg.micropip>>, <<Pkg.packaging>>} \subseteq Range(requested)
          /\ \A i, j \in 1..Len(requested) : i < j =>
                (requested[i] # requested[j] /\ StrLeq(requested[i], requested[j]))
    /\ (vpc \in {"download", "complete"} /\ rpc = "done") =>
          \A b \in {Pkg.micropip, Pkg.packaging} :
             InCatalog(b) => ReachFrom(packagesData, {b}) \subseteq Range(closure)
    /\ vendorManifest.written =>
          {<<Pkg.micropip>>, <<Pkg.packaging>>} \subseteq Range(vendorManifest.requested_packages)

\* an agent directory without a declaration file: the bootstrap set alone is requested
\* and resolved
C29_Witness ==
    /\ vpc = "complete" /\ dirCount = 1
    /\ requested = << <<Pkg.micropip>>, <<Pkg.packaging>> >>
    /\ closure = <<Pkg.micropip, Pkg.packaging>>
    /\ vendorDir = {Pkg.micropip, Pkg.packaging}

\* C37: in a vendor manifest that is written, every name of resolved_packages has its
\* archive in the vendor directory and in files, and files lists no archive of a
\* package that is not resolved, failed downloads or not.
C37_ManifestConsistent ==
    vendorManifest.written =>
        /\ Range(vendorManifest.resolved_packages) \subseteq vendorDir
        /\ Range(vendorManifest.resolved_packages) \subseteq Range(vendorManifest.files)
        /\ Range(vendorManifest.files) \subseteq Range(vendorManifest.resolved_packages)

\* the part of C37 that holds: files lists exactly the archives in the vendor
\* directory, all of them of resolved packages; the resolved packages without an
\* archive are those skipped or failed
ManifestFilesAreResolved ==
    vendorManifest.written =>
        /\ Range(vendorManifest.files) = vendorDir
        /\ vendorDir \subseteq Range(vendorManifest.resolved_packages)
        /\ Range(vendorManifest.resolved_packages) \ vendorDir = failedPkgs \cup skippedPkgs

====
